---- MODULE Spec2Model ----
(***************************************************************************)
(* Model of the docker_container module                                    *)
(* (lib/ansible/modules/cloud/docker/docker_container.py):                 *)
(*   - AnsibleDockerClientContainer._parse_comparisons, which resolves the *)
(*     per-option comparison table from the `comparisons` parameter;       *)
(*   - Container.has_different_configuration,                              *)
(*     Container.has_different_resource_limits and                         *)
(*     Container.has_network_differences / has_extra_networks, which       *)
(*     compare the module parameters with an inspected container;          *)
(*   - the part of main / ContainerManager.present that consumes them.     *)
(*                                                                         *)
(* Python values are modelled as records [some, v]: `some` is FALSE for    *)
(* None, and v is a string or number (type 'value'), a sequence (types     *)
(* 'list' and 'set') or a function from keys to strings (type 'dict').     *)
(***************************************************************************)
EXTENDS Integers, Sequences, FiniteSets, TLC

VARIABLES
    params,        \* client.module.params: the module options of this run
    api_lt_122,    \* client.docker_api_version < LooseVersion('1.22')
    check_mode,    \* client.check_mode
    daemon,        \* the Docker daemon: the container of that name, the images
    comparisons,   \* client.comparisons, NoComparisons until it is assigned
    pc,            \* position of the run in main()
    fail_msg,      \* message of the fail_json call that ended the run, "" if none
    container,     \* the Container the ContainerManager holds (inspect result)
    image,         \* the image _get_image returned
    calls,         \* Docker daemon calls issued so far, in order
    differences,   \* DifferenceTracker returned by has_different_configuration
    diff_tracker,  \* ContainerManager.diff_tracker
    results,       \* ContainerManager.results: changed, actions
    was_running,   \* present(): was_running = container.running
    was_paused,    \* present(): was_paused = container.paused
    container_created,  \* present(): container_created
    count,         \* container_remove, container_stop: count of the retry loop
    earlier,       \* the outcome of the pass before this one, None in the first
    eip            \* ec2_eip: a run of the module, its EC2 calls and its outcome

vars == <<params, api_lt_122, check_mode, daemon, comparisons, pc, fail_msg,
          container, image, calls, differences, diff_tracker, results,
          was_running, was_paused, container_created, count, earlier, eip>>

-----------------------------------------------------------------------------
(* Python values *)

None == [some |-> FALSE, v |-> <<>>]
Some(x) == [some |-> TRUE, v |-> x]

EmptyDict == <<>>

\* Range of a sequence
Range(s) == {s[i] : i \in 1..Len(s)}

\* The duplicate-free sequences over S of length at most n
RECURSIVE SeqsNoDup(_, _)
SeqsNoDup(S, n) ==
    IF n = 0 THEN {<<>>}
    ELSE LET shorter == SeqsNoDup(S, n - 1)
         IN  shorter \cup
             UNION {{Append(s, x) : x \in S \ Range(s)} : s \in shorter}

\* The orderings of the elements of a sequence
Permutations_of(s) ==
    {t \in SeqsNoDup(Range(s), Len(s)) : Len(t) = Len(s)}

-----------------------------------------------------------------------------
(* main(): argument_spec *)

\* Options declared with type='list'
ListOptions ==
    {"capabilities", "cap_drop", "devices", "device_read_bps", "device_write_bps",
     "device_read_iops", "device_write_iops", "dns_servers", "dns_opts",
     "dns_search_domains", "entrypoint", "exposed_ports", "groups", "links",
     "networks", "published_ports", "security_opts", "tmpfs", "ulimits",
     "volumes", "volumes_from"}

\* Options declared with type='dict'
DictOptions ==
    {"comparisons", "env", "etc_hosts", "healthcheck", "labels", "log_options",
     "sysctls"}

\* Options declared with any other type (bool, int, str, path, raw)
ScalarOptions ==
    {"auto_remove", "blkio_weight", "cleanup", "command", "cpu_period",
     "cpu_quota", "cpuset_cpus", "cpuset_mems", "cpu_shares", "detach",
     "domainname", "env_file", "force_kill", "hostname", "ignore_image", "image",
     "init", "interactive", "ipc_mode", "keep_volumes", "kernel_memory",
     "kill_signal", "log_driver", "mac_address", "memory", "memory_reservation",
     "memory_swap", "memory_swappiness", "name", "network_mode",
     "networks_cli_compatible", "oom_killer", "oom_score_adj", "output_logs",
     "paused", "pid_mode", "pids_limit", "privileged", "pull", "purge_networks",
     "read_only", "recreate", "restart", "restart_policy", "restart_retries",
     "runtime", "shm_size", "state", "stop_signal", "stop_timeout",
     "trust_image_content", "tty", "user", "userns_mode", "uts", "volume_driver",
     "working_dir"}

argument_spec == ListOptions \cup DictOptions \cup ScalarOptions

\* data['type'] of an option, as far as _parse_comparisons distinguishes it
argument_type(option) ==
    IF option \in ListOptions THEN "list"
    ELSE IF option \in DictOptions THEN "dict"
    ELSE "other"

\* data.get('aliases', [])
option_aliases(option) ==
    CASE option = "exposed_ports" -> {"exposed", "expose"}
      [] option = "force_kill" -> {"forcekill"}
      [] option = "log_options" -> {"log_opt"}
      [] option = "published_ports" -> {"ports"}
      [] OTHER -> {}

\* AnsibleDockerClientContainer.__NON_CONTAINER_PROPERTY_OPTIONS, without the
\* keys of DOCKER_COMMON_ARGS (connection options, which main() does not declare)
NON_CONTAINER_PROPERTY_OPTIONS ==
    {"env_file", "force_kill", "keep_volumes", "ignore_image", "name", "pull",
     "purge_networks", "recreate", "restart", "state", "trust_image_content",
     "networks", "cleanup", "kill_signal", "output_logs", "paused"}

-----------------------------------------------------------------------------
(* AnsibleDockerClientContainer._parse_comparisons *)

NoComparisons == <<>>

explicit_types ==
    [option \in {"command", "devices", "dns_search_domains", "dns_servers", "env",
                 "entrypoint", "etc_hosts", "networks", "ulimits",
                 "device_read_bps", "device_write_bps", "device_read_iops",
                 "device_write_iops"} |->
        CASE option \in {"command", "dns_search_domains", "dns_servers",
                         "entrypoint"} -> "list"
          [] option \in {"env", "etc_hosts"} -> "set"
          [] OTHER -> "set(dict)"]

default_values == [option \in {"stop_timeout"} |-> "ignore"]

\* Options that get an entry in the table: the loop's `continue`
ContainerOptions ==
    {option \in argument_spec :
        ~(option \in NON_CONTAINER_PROPERTY_OPTIONS /\ option # "networks")}

\* all_options: every option name and alias of argument_spec
all_options == argument_spec \cup UNION {option_aliases(option) : option \in argument_spec}

\* "Determine option type"
\* option_type that keeps a list a list
option_type_as_declared(option) ==
    IF option \in DOMAIN explicit_types THEN explicit_types[option]
    ELSE IF argument_type(option) = "list" THEN "list"
    ELSE IF argument_type(option) = "dict" THEN "dict"
    ELSE "value"

option_type(option) ==
    IF option \in DOMAIN explicit_types THEN explicit_types[option]
    ELSE IF argument_type(option) = "list" THEN "set"
    ELSE IF argument_type(option) = "dict" THEN "dict"
    ELSE "value"

\* "Determine comparison type"
default_comparison(option) ==
    IF option \in DOMAIN default_values THEN default_values[option]
    ELSE IF option_type(option) \in {"list", "value"} THEN "strict"
    ELSE "allow_more_present"

\* comparisons after the loop over argument_spec ("Put in defaults")
default_comparisons ==
    [option \in ContainerOptions |->
        [type |-> option_type(option),
         comparison |-> default_comparison(option),
         name |-> option]]

\* comp_aliases.get(key): the option a key names, "None" if it names none
comp_aliases_get(key) ==
    IF key \in ContainerOptions THEN key
    ELSE IF \E option \in ContainerOptions : key \in option_aliases(option)
         THEN CHOOSE option \in ContainerOptions : key \in option_aliases(option)
         ELSE "None"

\* table with the comparison of one entry replaced
set_comparison(table, option, value) ==
    [table EXCEPT ![option] = [@ EXCEPT !.comparison = value]]

\* "Process legacy ignore options"
legacy_comparisons(p) ==
    LET c1 == IF p.ignore_image
              THEN set_comparison(default_comparisons, "image", "ignore")
              ELSE default_comparisons
    IN  IF p.purge_networks THEN set_comparison(c1, "networks", "strict") ELSE c1

\* The value of comparisons['*'], "" if there is no such key
wildcard_value(p) ==
    IF \E i \in 1..Len(p.comparisons) : p.comparisons[i][1] = "*"
    THEN p.comparisons[CHOOSE i \in 1..Len(p.comparisons) :
                           p.comparisons[i][1] = "*"][2]
    ELSE ""

has_wildcard(p) == \E i \in 1..Len(p.comparisons) : p.comparisons[i][1] = "*"

\* The wildcard loop without the exception for networks
apply_wildcard_to_all(p, table) ==
    [option \in DOMAIN table |->
        [table[option] EXCEPT !.comparison = wildcard_value(p)]]

\* "If '*' appears in comparisons, process it first": the loop that writes the
\* wildcard value into every entry, networks excepted when it is not specified
apply_wildcard(p, table) ==
    [option \in DOMAIN table |->
        IF option = "networks" /\ ~p.networks.some
        THEN table[option]
        ELSE [table[option] EXCEPT !.comparison = wildcard_value(p)]]

\* process_key without the check of the option's type
process_key_untyped(st, key, value) ==
    LET key_main == comp_aliases_get(key)
    IN  IF st.failed \/ key = "*" THEN st
        ELSE IF key_main = "None"
        THEN [st EXCEPT !.failed = TRUE, !.msg = "unknown option"]
        ELSE IF key_main \in st.used
        THEN [st EXCEPT !.failed = TRUE, !.msg = "aliases both specified"]
        ELSE IF value \in {"strict", "ignore", "allow_more_present"}
        THEN [st EXCEPT !.used = @ \cup {key_main},
                        !.table = set_comparison(@, key_main, value)]
        ELSE [st EXCEPT !.failed = TRUE, !.msg = "unknown comparison mode"]

\* process_key that skips a key it does not know
process_key_lenient(st, key, value) ==
    LET key_main == comp_aliases_get(key)
    IN  IF st.failed \/ key = "*" \/ key_main = "None" THEN st
        ELSE IF key_main \in st.used
        THEN [st EXCEPT !.failed = TRUE, !.msg = "aliases both specified"]
        ELSE IF value \in {"strict", "ignore"}
        THEN [st EXCEPT !.used = @ \cup {key_main},
                        !.table = set_comparison(@, key_main, value)]
        ELSE IF value = "allow_more_present"
        THEN IF st.table[key_main].type = "value"
             THEN [st EXCEPT !.failed = TRUE, !.msg = "value option"]
             ELSE [st EXCEPT !.used = @ \cup {key_main},
                             !.table = set_comparison(@, key_main, value)]
        ELSE [st EXCEPT !.failed = TRUE, !.msg = "unknown comparison mode"]

\* One iteration of "Now process all other comparisons" on the loop state
\* st = [failed, msg, table, used]; a failed state is final (fail_json exits)
process_key(st, key, value) ==
    LET key_main == comp_aliases_get(key)
    IN  IF st.failed \/ key = "*" THEN st
        ELSE IF key_main = "None"
        THEN \* `key_main in all_options` tests None, never the key itself
             IF key_main \in all_options
             THEN [st EXCEPT !.failed = TRUE, !.msg = "not a container option"]
             ELSE [st EXCEPT !.failed = TRUE, !.msg = "unknown option"]
        ELSE IF key_main \in st.used
        THEN [st EXCEPT !.failed = TRUE, !.msg = "aliases both specified"]
        ELSE IF value \in {"strict", "ignore"}
        THEN [st EXCEPT !.used = @ \cup {key_main},
                        !.table = set_comparison(@, key_main, value)]
        ELSE IF value = "allow_more_present"
        THEN IF st.table[key_main].type = "value"
             THEN [st EXCEPT !.failed = TRUE, !.msg = "value option"]
             ELSE [st EXCEPT !.used = @ \cup {key_main},
                             !.table = set_comparison(@, key_main, value)]
        ELSE [st EXCEPT !.failed = TRUE, !.msg = "unknown comparison mode"]

\* The loop over self.module.params['comparisons'].items(), in the order `items`
RECURSIVE process_keys(_, _)
process_keys(st, items) ==
    IF items = <<>> THEN st
    ELSE process_keys(process_key(st, Head(items)[1], Head(items)[2]), Tail(items))

\* "Add implicit options"
add_implicit(table) ==
    [option \in DOMAIN table \cup
                {"publish_all_ports", "expected_ports", "disable_healthcheck"} |->
        CASE option = "publish_all_ports" ->
                [type |-> "value", comparison |-> "strict",
                 name |-> "published_ports"]
          [] option = "expected_ports" ->
                [type |-> "dict",
                 comparison |-> table["published_ports"].comparison,
                 name |-> "expected_ports"]
          [] option = "disable_healthcheck" ->
                [type |-> "value",
                 comparison |-> IF table["healthcheck"].comparison = "ignore"
                                THEN "ignore" ELSE "strict",
                 name |-> "disable_healthcheck"]
          [] OTHER -> table[option]]

\* A single loop over the mapping that writes the wildcard where it meets it
RECURSIVE process_keys_and_wildcard(_, _, _)
process_keys_and_wildcard(st, p, items) ==
    IF items = <<>> THEN st
    ELSE LET key == Head(items)[1]
             next == IF key = "*" /\ ~st.failed
                     THEN [st EXCEPT !.table = apply_wildcard(p, @)]
                     ELSE process_key(st, key, Head(items)[2])
         IN  process_keys_and_wildcard(next, p, Tail(items))

\* _parse_comparisons with the wildcard processed in iteration order
parse_in_one_loop(p, items) ==
    LET legacy == legacy_comparisons(p)
        bad_wildcard == has_wildcard(p) /\ wildcard_value(p) \notin {"strict", "ignore"}
        st == process_keys_and_wildcard(
                  [failed |-> FALSE, msg |-> "", table |-> legacy, used |-> {}],
                  p, items)
    IN  IF Len(p.comparisons) = 0
        THEN [failed |-> FALSE, msg |-> "", table |-> add_implicit(legacy)]
        ELSE IF bad_wildcard
        THEN [failed |-> TRUE, msg |-> "wildcard mode", table |-> NoComparisons]
        ELSE IF st.failed
        THEN [failed |-> TRUE, msg |-> st.msg, table |-> NoComparisons]
        ELSE [failed |-> FALSE, msg |-> "", table |-> add_implicit(st.table)]

\* _parse_comparisons that takes any comparison mode for the wildcard
parse_any_wildcard(p, items) ==
    LET legacy == legacy_comparisons(p)
        bad_wildcard == has_wildcard(p) /\ wildcard_value(p) \notin
                            {"strict", "ignore", "allow_more_present"}
        wild == IF has_wildcard(p) /\ ~bad_wildcard
                THEN apply_wildcard(p, legacy) ELSE legacy
        st == process_keys([failed |-> FALSE, msg |-> "", table |-> wild, used |-> {}],
                           items)
    IN  IF Len(p.comparisons) = 0
        THEN [failed |-> FALSE, msg |-> "", table |-> add_implicit(legacy)]
        ELSE IF bad_wildcard
        THEN [failed |-> TRUE, msg |-> "wildcard mode", table |-> NoComparisons]
        ELSE IF st.failed
        THEN [failed |-> TRUE, msg |-> st.msg, table |-> NoComparisons]
        ELSE [failed |-> FALSE, msg |-> "", table |-> add_implicit(st.table)]

\* The whole of _parse_comparisons with the comparisons mapping iterated in the
\* order `items`: [failed, msg, table]; table is what self.comparisons is set to
parse_with_order(p, items) ==
    LET legacy == legacy_comparisons(p)
        bad_wildcard == has_wildcard(p) /\ wildcard_value(p) \notin {"strict", "ignore"}
        wild == IF has_wildcard(p) /\ ~bad_wildcard
                THEN apply_wildcard(p, legacy) ELSE legacy
        st == process_keys([failed |-> FALSE, msg |-> "", table |-> wild, used |-> {}],
                           items)
    IN  IF Len(p.comparisons) = 0
        THEN [failed |-> FALSE, msg |-> "", table |-> add_implicit(legacy)]
        ELSE IF bad_wildcard
        THEN [failed |-> TRUE, msg |-> "wildcard mode", table |-> NoComparisons]
        ELSE IF st.failed
        THEN [failed |-> TRUE, msg |-> st.msg, table |-> NoComparisons]
        ELSE [failed |-> FALSE, msg |-> "", table |-> add_implicit(st.table)]

\* _parse_comparisons: the mapping is iterated in its own order
_parse_comparisons(p) == parse_with_order(p, p.comparisons)

-----------------------------------------------------------------------------
(* ansible.module_utils.docker.common: compare_generic and DifferenceTracker *)

\* a is a subsequence of b: the elements of a occur in b in the same order
RECURSIVE IsSubsequence(_, _)
IsSubsequence(a, b) ==
    IF a = <<>> THEN TRUE
    ELSE IF b = <<>> THEN FALSE
    ELSE IF Head(a) = Head(b) THEN IsSubsequence(Tail(a), Tail(b))
    ELSE IsSubsequence(a, Tail(b))

\* Number of occurrences of x in the sequence s
Count(s, x) == Cardinality({i \in 1..Len(s) : s[i] = x})

\* a and b hold the same elements the same number of times
SameMultiset(a, b) ==
    \A x \in Range(a) \cup Range(b) : Count(a, x) = Count(b, x)

\* Every key of the dict a is in the dict b with the same value
compare_dict_allow_more_present(a, b) ==
    \A k \in DOMAIN a : k \in DOMAIN b /\ b[k] = a[k]

\* Every dict of the list a has a dict of the list b with its keys and values
dicts_allow_more_present(a, b) ==
    \A i \in 1..Len(a) :
        \E j \in 1..Len(b) : compare_dict_allow_more_present(a[i], b[j])

\* a == b for two simple values, either of which may be None
value_eq(a, b) == a.some = b.some /\ (a.some => a.v = b.v)

\* compare_generic(a, b, method, type): TRUE iff a (the parameter) and b (the
\* container's value) match. An absent collection is compared as an empty one;
\* for an ordered list, allow_more_present is order-preserving inclusion.
compare_generic(a, b, method, type) ==
    IF method = "ignore" THEN TRUE
    ELSE IF type = "value"
    THEN value_eq(a, b)
    ELSE IF type = "list"
    THEN IF method = "strict" THEN a.v = b.v ELSE IsSubsequence(a.v, b.v)
    ELSE IF type = "set"
    THEN IF method = "strict" THEN SameMultiset(a.v, b.v)
         ELSE Range(a.v) \subseteq Range(b.v)
    ELSE IF type = "dict"
    THEN IF method = "strict" THEN a.v = b.v
         ELSE compare_dict_allow_more_present(a.v, b.v)
    ELSE IF type = "set(dict)"
    THEN /\ dicts_allow_more_present(a.v, b.v)
         /\ method = "strict" => dicts_allow_more_present(b.v, a.v)
    ELSE FALSE

\* DifferenceTracker(): an empty tracker
DifferenceTracker == <<>>

\* DifferenceTracker.add
tracker_add(tracker, name, parameter, active) ==
    Append(tracker, [name |-> name, parameter |-> parameter, active |-> active])

\* DifferenceTracker.merge
tracker_merge(tracker, other) == tracker \o other

\* DifferenceTracker.empty
tracker_empty(tracker) == Len(tracker) = 0

\* The names recorded in a tracker
tracker_names(tracker) == {tracker[i].name : i \in 1..Len(tracker)}

-----------------------------------------------------------------------------
(* TaskParameters: the attributes the comparisons read *)

\* The order sorted() puts the elements of a collection in
ElemOrder == <<"a", "b", "c", "d">>
Elems == Range(ElemOrder)

\* x repeated n times
RECURSIVE Repeat(_, _)
Repeat(x, n) == IF n = 0 THEN <<>> ELSE <<x>> \o Repeat(x, n - 1)

\* sorted(s) for a sequence of elements
RECURSIVE sorted_from(_, _)
sorted_from(s, i) ==
    IF i > Len(ElemOrder) THEN <<>>
    ELSE Repeat(ElemOrder[i], Count(s, ElemOrder[i])) \o sorted_from(s, i + 1)

sorted(x) == IF x.some THEN Some(sorted_from(x.v, 1)) ELSE x

\* The order of the device paths as strings
PathOrder == <<"/dev/sda", "/dev/sdb">>

\* sorted(x.items()) < sorted(y.items()) for two device dicts: the items are
\* ('Path', path) and ('Rate', rate)
items_less(x, y) ==
    IF x.Path # y.Path
    THEN \E i, j \in 1..Len(PathOrder) :
            PathOrder[i] = x.Path /\ PathOrder[j] = y.Path /\ i < j
    ELSE x.Rate < y.Rate

\* x put into the sorted list s, behind the dicts that are not greater
RECURSIVE insort(_, _)
insort(s, x) ==
    IF s = <<>> THEN <<x>>
    ELSE IF items_less(x, Head(s)) THEN <<x>> \o s
    ELSE <<Head(s)>> \o insort(Tail(s), x)

\* sorted(s, key=lambda x: sorted(x.items())) for a list of device dicts
RECURSIVE sorted_by_items(_)
sorted_by_items(s) ==
    IF s = <<>> THEN <<>>
    ELSE insort(sorted_by_items(SubSeq(s, 1, Len(s) - 1)), s[Len(s)])

sorted_dicts(x) == IF x.some THEN Some(sorted_by_items(x.v)) ELSE x

\* human_to_bytes for the rates of the model
human_to_bytes(rate) ==
    CASE rate = "1k" -> 1024
      [] rate = "2k" -> 2048

\* TaskParameters._process_rate_bps: the keys in title case, the rate in
\* bytes; __init__ calls it for a list that is not empty
_process_rate_bps(devices) ==
    IF devices.some /\ devices.v # <<>>
    THEN Some([i \in 1..Len(devices.v) |->
                  [Path |-> devices.v[i].path,
                   Rate |-> human_to_bytes(devices.v[i].rate)]])
    ELSE devices

\* Published port specifications of the model, in docker CLI syntax
PortSpecs == {"8080:80", "9090:80", "443"}

\* The key _get_expected_ports builds for a specification: "<port>/tcp"
container_port(spec) ==
    CASE spec = "8080:80" -> "80/tcp"
      [] spec = "9090:80" -> "80/tcp"
      [] spec = "443" -> "443/tcp"

\* The binding _get_expected_ports builds, written "<HostIp>:<HostPort>"
host_binding(spec) ==
    CASE spec = "8080:80" -> "0.0.0.0" \o ":" \o "8080"
      [] spec = "9090:80" -> "0.0.0.0" \o ":" \o "9090"
      [] spec = "443" -> "0.0.0.0" \o ":" \o ""

\* _parse_publish_ports returns 'all'
publishes_all(p) == p.published_ports.some /\ "all" \in Range(p.published_ports.v)

\* TaskParameters.publish_all_ports (set in __init__)
publish_all_ports(p) == Some(publishes_all(p))

\* Container._get_expected_ports on TaskParameters.published_ports
_get_expected_ports(p) ==
    IF ~p.published_ports.some \/ publishes_all(p) \/ p.published_ports.v = <<>>
    THEN None
    ELSE LET specs == Range(p.published_ports.v)
         IN  Some([cp \in {container_port(sp) : sp \in specs} |->
                      host_binding(CHOOSE sp \in specs : container_port(sp) = cp)])

\* getattr(self.parameters, key, None) for the keys of the config mappings
parameter(p, key) ==
    CASE key = "publish_all_ports" -> publish_all_ports(p)
      [] key = "expected_ports" -> _get_expected_ports(p)
      [] key = "device_read_bps" -> _process_rate_bps(p.device_read_bps)
      [] OTHER -> p[key]

-----------------------------------------------------------------------------
(* Container *)

\* Container.parameters_map.get(key, key)
parameters_map(key) == key

\* _compare that does not look at the comparison mode
_compare_strict(a, b, compare) == compare_generic(a, b, "strict", compare.type)

\* Container._compare
_compare(a, b, compare) == compare_generic(a, b, compare.comparison, compare.type)

\* The keys of config_mapping in has_different_configuration, one per kind of
\* entry: plain values, an ordered list, a set, a dict, and the derived
\* entries for ports and healthcheck
ConfigKeys ==
    <<"hostname", "dns_servers", "capabilities", "labels", "expected_ports",
      "publish_all_ports", "disable_healthcheck", "restart_policy",
      "device_read_bps">>

\* "Options which don't make sense without their accompanying option": the keys
\* config_mapping gets only when restart_policy, log_driver are specified
DependentKeys == <<"restart_retries", "log_driver", "log_options">>

\* The keys of config_mapping in has_different_resource_limits
LimitKeys == <<"cpu_shares">>

\* The value config_mapping holds for a key: the inspect result of container c
config_value(c, key) ==
    CASE key = "hostname" -> c.Hostname
      [] key = "dns_servers" -> c.Dns
      [] key = "capabilities" -> c.CapAdd
      [] key = "labels" -> c.Labels
      [] key = "expected_ports" -> c.PortBindings
      [] key = "publish_all_ports" -> c.PublishAllPorts
      [] key = "disable_healthcheck" ->
            Some(~c.Healthcheck.some \/ c.Healthcheck.v = <<>>
                 \/ c.Healthcheck.v = <<"NONE">>)
      [] key = "cpu_shares" -> c.CpuShares
      [] key = "restart_policy" -> c.RestartPolicy.Name
      [] key = "restart_retries" -> c.RestartPolicy.MaximumRetryCount
      [] key = "log_driver" -> c.LogConfig.Type
      [] key = "log_options" -> c.LogConfig.Config
      [] key = "device_read_bps" -> c.BlkioDeviceReadBps

\* config_mapping with every dependent key, whatever is specified
config_keys_all(p, lt_122) ==
    ConfigKeys \o DependentKeys \o (IF lt_122 THEN LimitKeys ELSE <<>>)

\* config_mapping that holds the limits whatever the API version is
config_keys_with_limits(p, lt_122) == ConfigKeys \o LimitKeys

\* config_mapping.items() of has_different_configuration: the dependent keys
\* are there only with their governing option; for docker API < 1.22 the
\* limits are handled as configuration
config_keys(p, lt_122) ==
    ConfigKeys
    \o (IF p.restart_policy.some /\ p.restart_policy.v # ""
        THEN <<"restart_retries">> ELSE <<>>)
    \o (IF p.log_driver.some /\ p.log_driver.v # ""
        THEN <<"log_driver", "log_options">> ELSE <<>>)
    \o (IF lt_122 THEN LimitKeys ELSE <<>>)

\* config_difference that records the keys that match
config_difference_inverted(tracker, p, c, table, key) ==
    LET compare == table[parameters_map(key)]
        param == parameter(p, key)
        value == config_value(c, key)
    IN  IF param.some /\ _compare(param, value, compare)
        THEN tracker_add(tracker, key, param, value)
        ELSE tracker

\* config_difference that records the container's value as the parameter
config_difference_swapped(tracker, p, c, table, key) ==
    LET compare == table[parameters_map(key)]
        param == parameter(p, key)
        value == config_value(c, key)
    IN  IF param.some /\ ~_compare(param, value, compare)
        THEN tracker_add(tracker, key, value, param)
        ELSE tracker

\* config_difference that records the values in the order they are listed in
config_difference_as_listed(tracker, p, c, table, key) ==
    LET compare == table[parameters_map(key)]
        param == parameter(p, key)
        value == config_value(c, key)
    IN  IF param.some /\ ~_compare(param, value, compare)
        THEN tracker_add(tracker, key, param, value)
        ELSE tracker

\* The body of the loop of has_different_configuration for one key: the
\* tracker with the difference of that key added, if there is one
config_difference(tracker, p, c, table, key) ==
    LET compare == table[parameters_map(key)]
        param == parameter(p, key)
        value == config_value(c, key)
    IN  IF param.some /\ ~_compare(param, value, compare)
        THEN IF compare.type = "set"
             THEN tracker_add(tracker, key, sorted(param), sorted(value))
             ELSE IF compare.type = "set(dict)"
             THEN tracker_add(tracker, key, sorted_dicts(param),
                              sorted_dicts(value))
             ELSE tracker_add(tracker, key, param, value)
        ELSE tracker

RECURSIVE config_differences(_, _, _, _, _)
config_differences(tracker, p, c, table, keys) ==
    IF keys = <<>> THEN tracker
    ELSE config_differences(config_difference(tracker, p, c, table, Head(keys)),
                            p, c, table, Tail(keys))

\* Container.has_different_configuration: the tracker it returns;
\* has_differences is `not differences.empty`
has_different_configuration(p, c, table, lt_122) ==
    config_differences(DifferenceTracker, p, c, table, config_keys(p, lt_122))

\* Python truth value of a number parameter
truthy_number(x) == x.some /\ x.v # 0

\* The body of the loop of has_different_resource_limits for one key
limit_difference(tracker, p, c, table, key) ==
    LET param == parameter(p, key)
        value == config_value(c, key)
    IN  IF truthy_number(param) /\ ~_compare(param, value, table[parameters_map(key)])
        THEN tracker_add(tracker, key, param, value)
        ELSE tracker

RECURSIVE limit_differences(_, _, _, _, _)
limit_differences(tracker, p, c, table, keys) ==
    IF keys = <<>> THEN tracker
    ELSE limit_differences(limit_difference(tracker, p, c, table, Head(keys)),
                           p, c, table, Tail(keys))

\* Container.has_different_resource_limits: the tracker it returns (for docker
\* API < 1.22 update_container is not supported and nothing is compared)
has_different_resource_limits(p, c, table, lt_122) ==
    IF lt_122 THEN DifferenceTracker
    ELSE limit_differences(DifferenceTracker, p, c, table, LimitKeys)

\* Python truth value of a string parameter
truthy_string(x) == x.some /\ x.v # ""

\* Python truth value of a list or dict parameter
truthy(x) == x.some /\ x.v # <<>>

\* expected_links of has_network_differences: "link:alias" for every pair
expected_links(links) == [i \in 1..Len(links) |-> links[i][1] \o ":" \o links[i][2]]

\* network_option_differs that wants the aliases to be the same
network_option_differs_strict(network, cn) ==
    \/ truthy_string(network.ipv4_address)
       /\ ~value_eq(network.ipv4_address, cn.IPAddress)
    \/ truthy_string(network.ipv6_address)
       /\ ~value_eq(network.ipv6_address, cn.GlobalIPv6Address)
    \/ truthy(network.aliases)
       /\ ~compare_generic(network.aliases, cn.Aliases, "strict", "set")
    \/ truthy(network.links)
       /\ ~compare_generic(Some(expected_links(network.links.v)), cn.Links,
                           "allow_more_present", "set")

\* The `else` branch of has_network_differences: network is connected as cn,
\* does one of its requested options differ?
network_option_differs(network, cn) ==
    \/ truthy_string(network.ipv4_address)
       /\ ~value_eq(network.ipv4_address, cn.IPAddress)
    \/ truthy_string(network.ipv6_address)
       /\ ~value_eq(network.ipv6_address, cn.GlobalIPv6Address)
    \/ truthy(network.aliases)
       /\ ~compare_generic(network.aliases, cn.Aliases, "allow_more_present", "set")
    \/ truthy(network.links)
       /\ ~compare_generic(Some(expected_links(network.links.v)), cn.Links,
                           "allow_more_present", "set")

\* What has_network_differences records for one requested network: <<>> if it
\* is connected as requested, else one entry [parameter, container]
network_difference(network, connected_networks) ==
    IF network.name \notin DOMAIN connected_networks
    THEN <<[parameter |-> network, container |-> None]>>
    ELSE IF network_option_differs(network, connected_networks[network.name])
    THEN LET cn == connected_networks[network.name]
         IN  <<[parameter |-> network,
                container |-> Some([name |-> network.name,
                                    ipv4_address |-> cn.IPAddress,
                                    ipv6_address |-> cn.GlobalIPv6Address,
                                    aliases |-> cn.Aliases,
                                    links |-> cn.Links])]>>
    ELSE <<>>

RECURSIVE network_differences(_, _)
network_differences(networks, connected_networks) ==
    IF networks = <<>> THEN <<>>
    ELSE network_difference(Head(networks), connected_networks)
         \o network_differences(Tail(networks), connected_networks)

\* Container.has_network_differences: the list of differences it returns;
\* `different` is that the list is not empty
has_network_differences(p, c) ==
    IF ~truthy(p.networks) THEN <<>>
    ELSE network_differences(p.networks.v, c.Networks)

\* The order in which the networks of a container are listed
NetworkOrder == <<"bridge", "net1", "net2">>

\* has_extra_networks that finds no extra network
has_extra_networks_none(p, c) == <<>>

\* Container.has_extra_networks: the connected networks that are not requested
has_extra_networks(p, c) ==
    LET requested == IF truthy(p.networks)
                     THEN {p.networks.v[i].name : i \in 1..Len(p.networks.v)}
                     ELSE {}
        extra(name) == name \in DOMAIN c.Networks /\ name \notin requested
    IN  SelectSeq(NetworkOrder, extra)

-----------------------------------------------------------------------------
(* main() and ContainerManager, from the construction of the client to the  *)
(* first operation of the pass that changes the daemon: the final values of  *)
(* pc in Spec name that operation, and NextRun goes on from there.           *)

\* pc when the run has ended or has reached the operation it goes on with
FinalPc ==
    {"failed", "container_create", "recreate", "container_update",
     "add_networks", "purge_networks", "run_state"}

\* main(): client = AnsibleDockerClientContainer(...); __init__ ends with
\* self._parse_comparisons(), whose self.fail() ends the run
ClientInit ==
    /\ pc = "main"
    /\ LET parsed == _parse_comparisons(params)
       IN  IF parsed.failed
           THEN /\ pc' = "failed"
                /\ fail_msg' = parsed.msg
                /\ UNCHANGED comparisons
           ELSE /\ pc' = "client"
                /\ comparisons' = parsed.table
                /\ UNCHANGED fail_msg
    /\ UNCHANGED <<params, api_lt_122, check_mode, daemon, container, image,
                   calls, differences, diff_tracker, results>>
    /\ UNCHANGED <<was_running, was_paused, container_created, count, earlier>>
    /\ UNCHANGED eip

\* Container.running that never sees a running container
running_never(c) == FALSE

\* Container.running and Container.paused of an inspect result
running(c) == c.some /\ c.v.Running
paused(c) == c.some /\ c.v.Paused

\* ContainerManager.__init__ -> present() or absent(): both begin with
\* container = self._get_container(name); present() keeps was_running, was_paused
GetContainer ==
    /\ pc = "client"
    /\ calls' = Append(calls, "inspect_container")
    /\ container' = daemon.container
    /\ IF params.state = "absent"
       THEN pc' = "absent" /\ UNCHANGED <<was_running, was_paused>>
       ELSE /\ pc' = "get_image"
            /\ was_running' = running(daemon.container)
            /\ was_paused' = paused(daemon.container)
    /\ UNCHANGED <<params, api_lt_122, check_mode, daemon, comparisons, fail_msg,
                   image, differences, diff_tracker, results>>
    /\ UNCHANGED <<container_created, count, earlier>>
    /\ UNCHANGED eip

\* is_image_name_id: the image parameter is an image ID
is_image_name_id(name) == name \in {"sha256:1", "sha256:2"}

\* ContainerManager._get_image
GetImage ==
    /\ pc = "get_image"
    /\ IF ~truthy_string(params.image)
       THEN /\ image' = None
            /\ pc' = "present"
            /\ UNCHANGED <<daemon, calls, results, fail_msg>>
       ELSE IF is_image_name_id(params.image.v)
       THEN \* find_image_by_id
            /\ image' = IF value_eq(daemon.local_image, params.image)
                        THEN daemon.local_image ELSE None
            /\ calls' = Append(calls, "find_image_by_id")
            /\ pc' = "present"
            /\ UNCHANGED <<daemon, results, fail_msg>>
       ELSE IF ~check_mode /\ (~daemon.local_image.some \/ params.pull)
       THEN \* find_image, then pull_image
            IF daemon.registry_image.some
            THEN /\ image' = daemon.registry_image
                 /\ daemon' = [daemon EXCEPT !.local_image = daemon.registry_image]
                 /\ calls' = calls \o <<"find_image", "pull_image">>
                 /\ results' =
                       IF value_eq(daemon.local_image, daemon.registry_image)
                       THEN [results EXCEPT !.changed = FALSE]
                       ELSE [changed |-> TRUE,
                             actions |-> Append(results.actions, "pulled_image")]
                 /\ pc' = "present"
                 /\ UNCHANGED fail_msg
            ELSE /\ calls' = calls \o <<"find_image", "pull_image">>
                 /\ pc' = "failed"
                 /\ fail_msg' = "Error pulling image"
                 /\ UNCHANGED <<image, daemon, results>>
       ELSE /\ image' = daemon.local_image
            /\ calls' = Append(calls, "find_image")
            /\ pc' = "present"
            /\ UNCHANGED <<daemon, results, fail_msg>>
    /\ UNCHANGED <<params, api_lt_122, check_mode, comparisons, container,
                   differences, diff_tracker>>
    /\ UNCHANGED <<was_running, was_paused, container_created, count, earlier>>
    /\ UNCHANGED eip

\* ContainerManager._image_is_different: its return value (the tracker entry
\* it adds is image_difference)
_image_is_different(img, c) ==
    img.some /\ img.v # "" /\ c.Image # "" /\ img.v # c.Image

\* The entry _image_is_different adds to the diff_tracker
image_difference(tracker, img, c) ==
    IF _image_is_different(img, c)
    THEN tracker_add(tracker, "image", img, Some(c.Image))
    ELSE tracker

\* present(): is the image compared, and does it differ
image_different(img, c, table) ==
    table["image"].comparison = "strict" /\ _image_is_different(img, c)

\* ContainerManager.present(), from the image to the decision between
\* creating, recreating and keeping the container
Present ==
    /\ pc = "present"
    /\ IF ~container.some
       THEN \* "New container"
            IF ~truthy_string(params.image)
            THEN /\ pc' = "failed"
                 /\ fail_msg' = "Cannot create container when image is not specified!"
                 /\ UNCHANGED <<differences, diff_tracker>>
            ELSE /\ diff_tracker' = tracker_add(diff_tracker, "exists",
                                                Some(TRUE), Some(FALSE))
                 /\ pc' = "container_create"
                 /\ UNCHANGED <<differences, fail_msg>>
       ELSE \* "Existing container"
            LET c == container.v
                differs == has_different_configuration(params, c, comparisons,
                                                       api_lt_122)
                img_differs == image_different(image, c, comparisons)
                tracked == IF comparisons["image"].comparison = "strict"
                           THEN image_difference(diff_tracker, image, c)
                           ELSE diff_tracker
            IN  /\ differences' = differs
                /\ IF img_differs \/ ~tracker_empty(differs) \/ params.recreate
                   THEN /\ diff_tracker' = tracker_merge(tracked, differs)
                        /\ IF ~truthy_string(params.image) /\ c.Image = ""
                           THEN /\ pc' = "failed"
                                /\ fail_msg' = "Cannot recreate container"
                           ELSE /\ pc' = "recreate"
                                /\ UNCHANGED fail_msg
                   ELSE /\ diff_tracker' = tracked
                        /\ pc' = "update_limits"
                        /\ UNCHANGED fail_msg
    /\ UNCHANGED <<params, api_lt_122, check_mode, daemon, comparisons,
                   container, image, calls, results>>
    /\ UNCHANGED <<was_running, was_paused, container_created, count, earlier>>
    /\ UNCHANGED eip

\* ContainerManager.update_limits, up to the call of container_update
UpdateLimits ==
    /\ pc = "update_limits"
    /\ LET different_limits ==
               has_different_resource_limits(params, container.v, comparisons,
                                             api_lt_122)
           limits_differ == ~tracker_empty(different_limits)
       IN  /\ diff_tracker' = IF limits_differ
                              THEN tracker_merge(diff_tracker, different_limits)
                              ELSE diff_tracker
           /\ pc' = IF limits_differ /\ ~check_mode
                    THEN "container_update" ELSE "update_networks"
    /\ UNCHANGED <<params, api_lt_122, check_mode, daemon, comparisons, fail_msg,
                   container, image, calls, differences, results>>
    /\ UNCHANGED <<was_running, was_paused, container_created, count, earlier>>
    /\ UNCHANGED eip

\* The entries update_networks adds to the diff_tracker for the differences
RECURSIVE add_network_differences(_, _)
add_network_differences(tracker, network_diffs) ==
    IF network_diffs = <<>> THEN tracker
    ELSE add_network_differences(
             tracker_add(tracker, "network." \o Head(network_diffs).parameter.name,
                         Some(Head(network_diffs).parameter),
                         Head(network_diffs).container),
             Tail(network_diffs))

\* The entries update_networks adds to the diff_tracker for the extra networks
RECURSIVE add_extra_networks(_, _)
add_extra_networks(tracker, extra_networks) ==
    IF extra_networks = <<>> THEN tracker
    ELSE add_extra_networks(
             tracker_add(tracker, "network." \o Head(extra_networks), None,
                         Some(Head(extra_networks))),
             Tail(extra_networks))

\* update_networks(container, container_created): are the requested networks
\* compared
networks_compared(table, created) ==
    table["networks"].comparison # "ignore" \/ created

\* update_networks: are the networks that were not requested looked for
extra_networks_checked(p, table) ==
    (table["networks"].comparison = "strict" /\ p.networks.some) \/ p.purge_networks

\* ContainerManager.update_networks, up to the call of _add_networks or, when
\* there is nothing to add, of _purge_networks
UpdateNetworks ==
    /\ pc = "update_networks"
    /\ LET network_diffs == IF networks_compared(comparisons, container_created)
                            THEN has_network_differences(params, container.v)
                            ELSE <<>>
           extra_networks == IF extra_networks_checked(params, comparisons)
                             THEN has_extra_networks(params, container.v)
                             ELSE <<>>
       IN  IF network_diffs # <<>>
           THEN /\ diff_tracker' = add_network_differences(diff_tracker, network_diffs)
                /\ results' = [results EXCEPT !.changed = TRUE]
                /\ pc' = "add_networks"
           ELSE IF extra_networks # <<>>
           THEN /\ diff_tracker' = add_extra_networks(diff_tracker, extra_networks)
                /\ results' = [results EXCEPT !.changed = TRUE]
                /\ pc' = "purge_networks"
           ELSE /\ pc' = "run_state"
                /\ UNCHANGED <<diff_tracker, results>>
    /\ UNCHANGED <<params, api_lt_122, check_mode, daemon, comparisons, fail_msg,
                   container, image, calls, differences>>
    /\ UNCHANGED <<was_running, was_paused, container_created, count, earlier>>
    /\ UNCHANGED eip

Next ==
    \/ ClientInit
    \/ GetContainer
    \/ GetImage
    \/ Present
    \/ UpdateLimits
    \/ UpdateNetworks

-----------------------------------------------------------------------------
(* The runs that are checked: module parameters and daemon states *)

\* Longest list or set value of an option
MaxLen == 3

\* Most keys of a comparisons mapping
MaxComparisons == 2

\* Longest list of devices
MaxDevices == 2

\* f with the fields of g replaced by g's
Override(f, g) == [k \in DOMAIN f |-> IF k \in DOMAIN g THEN g[k] ELSE f[k]]

\* A requested network and a connected one
Network(name, ipv4_address, aliases, links) ==
    [name |-> name, ipv4_address |-> ipv4_address, ipv6_address |-> None,
     aliases |-> aliases, links |-> links]

Connected(ip, aliases, links) ==
    [IPAddress |-> ip, GlobalIPv6Address |-> None, Aliases |-> aliases,
     Links |-> links]

\* No option specified: the defaults of argument_spec
DefaultParams ==
    [comparisons |-> <<>>, ignore_image |-> FALSE, purge_networks |-> FALSE,
     recreate |-> FALSE, pull |-> FALSE, image |-> Some("ubuntu"),
     networks |-> None, hostname |-> None, dns_servers |-> None,
     capabilities |-> None, labels |-> None, published_ports |-> None,
     disable_healthcheck |-> None, cpu_shares |-> None,
     restart_policy |-> None, restart_retries |-> None, log_driver |-> None,
     log_options |-> None, state |-> "started", restart |-> FALSE,
     paused |-> FALSE, force_kill |-> FALSE, device_read_bps |-> None]

\* The options of a run that specifies every option of the model
SpecifiedParams ==
    [hostname |-> Some("web"), dns_servers |-> Some(<<"a">>),
     capabilities |-> Some(<<"a">>), labels |-> Some([k \in {"env"} |-> "prod"]),
     published_ports |-> Some(<<"8080:80">>), disable_healthcheck |-> Some(FALSE),
     cpu_shares |-> Some(512), restart_policy |-> Some("always"),
     restart_retries |-> Some(3), log_driver |-> Some("syslog"),
     log_options |-> Some([k \in {"tag"} |-> "x"]),
     device_read_bps |-> Some(<<[path |-> "/dev/sda", rate |-> "1k"]>>)]

\* A container that has what SpecifiedParams asks for
MatchingContainer ==
    [Image |-> "sha256:1", Hostname |-> Some("web"), Dns |-> Some(<<"a">>),
     CapAdd |-> Some(<<"a">>), Labels |-> Some([k \in {"env"} |-> "prod"]),
     PortBindings |-> Some([k \in {"80/tcp"} |-> "0.0.0.0:8080"]),
     PublishAllPorts |-> Some(FALSE), Healthcheck |-> Some(<<"CMD", "true">>),
     CpuShares |-> Some(512),
     RestartPolicy |-> [Name |-> Some("always"), MaximumRetryCount |-> Some(3)],
     LogConfig |-> [Type |-> Some("syslog"),
                    Config |-> Some([k \in {"tag"} |-> "x"])],
     Networks |-> [n \in {"bridge"} |-> Connected(Some("172.17.0.2"), None, None)],
     Running |-> TRUE, Paused |-> FALSE,
     BlkioDeviceReadBps |-> Some(<<[Path |-> "/dev/sda", Rate |-> 1024]>>)]

\* A container that differs from SpecifiedParams in every option
DifferingContainer ==
    [Image |-> "sha256:1", Hostname |-> Some("db"), Dns |-> Some(<<"b">>),
     CapAdd |-> Some(<<"b">>), Labels |-> Some([k \in {"env"} |-> "staging"]),
     PortBindings |-> Some([k \in {"80/tcp"} |-> "0.0.0.0:9090"]),
     PublishAllPorts |-> Some(TRUE), Healthcheck |-> None,
     CpuShares |-> Some(1024),
     RestartPolicy |-> [Name |-> Some(""), MaximumRetryCount |-> Some(0)],
     LogConfig |-> [Type |-> Some("json-file"), Config |-> Some(EmptyDict)],
     Networks |-> [n \in {"bridge"} |-> Connected(Some("172.17.0.2"), None, None)],
     Running |-> TRUE, Paused |-> FALSE,
     BlkioDeviceReadBps |-> Some(<<[Path |-> "/dev/sda", Rate |-> 2048]>>)]

\* The other options of a run: none specified, all specified and present in
\* the container, all specified and different in the container
Profiles == {"unset", "same", "differ"}

ProfileParams(profile) ==
    IF profile = "unset" THEN DefaultParams
    ELSE Override(DefaultParams, SpecifiedParams)

ProfileContainer(profile) ==
    IF profile = "differ" THEN DifferingContainer ELSE MatchingContainer

\* Values of the options
Hostnames == {"", "web", "db"}
Collections == SeqsNoDup(Elems, MaxLen)
Lists == SeqsNoDup({"a", "b", "c"}, MaxLen)
LabelKeys == {"env", "owner"}
LabelValues == {"prod", "staging", "team-x"}
LabelDicts == UNION {[K -> LabelValues] : K \in SUBSET LabelKeys}
PortLists == {<<>>, <<"all">>, <<"8080:80">>, <<"9090:80">>, <<"8080:80", "443">>}
PortDicts ==
    {EmptyDict, [k \in {"80/tcp"} |-> "0.0.0.0:8080"],
     [k \in {"80/tcp"} |-> "0.0.0.0:9090"],
     [k \in {"80/tcp", "443/tcp"} |->
         IF k = "80/tcp" THEN "0.0.0.0:8080" ELSE "0.0.0.0:"]}
Shares == {0, 512, 1024}
LogOptions == {EmptyDict, [k \in {"tag"} |-> "x"], [k \in {"tag"} |-> "y"]}
Images == {"sha256:1", "sha256:2"}

Optional(S) == {None} \cup {Some(x) : x \in S}

\* Values of device_read_bps and of BlkioDeviceReadBps
DeviceRates ==
    {[path |-> "/dev/sda", rate |-> "1k"], [path |-> "/dev/sda", rate |-> "2k"],
     [path |-> "/dev/sdb", rate |-> "1k"]}
DeviceLimits ==
    {[Path |-> "/dev/sda", Rate |-> 1024], [Path |-> "/dev/sda", Rate |-> 2048],
     [Path |-> "/dev/sdb", Rate |-> 1024]}

\* The option a run is about: its parameter values (p) with the values of the
\* container (c) and of the rest of the daemon and client (d) it meets
FocusCases(focus) ==
    CASE focus = "hostname" ->
            {[p |-> [hostname |-> Some(a)], c |-> [Hostname |-> b], d |-> <<>>] :
                a \in Hostnames, b \in Optional(Hostnames)}
      [] focus = "dns_servers" ->
            {[p |-> [dns_servers |-> Some(a)], c |-> [Dns |-> b], d |-> <<>>] :
                a \in Lists, b \in Optional(Lists)}
      [] focus = "capabilities" ->
            {[p |-> [capabilities |-> Some(a)], c |-> [CapAdd |-> b], d |-> <<>>] :
                a \in Collections, b \in Optional(Lists)}
      [] focus = "labels" ->
            {[p |-> [labels |-> Some(a)], c |-> [Labels |-> b], d |-> <<>>] :
                a \in LabelDicts, b \in Optional(LabelDicts)}
      [] focus = "published_ports" ->
            {[p |-> [published_ports |-> a],
              c |-> [PortBindings |-> b, PublishAllPorts |-> Some(all)],
              d |-> <<>>] :
                a \in Optional(PortLists), b \in Optional(PortDicts),
                all \in BOOLEAN}
      [] focus = "healthcheck" ->
            {[p |-> [disable_healthcheck |-> a], c |-> [Healthcheck |-> b],
              d |-> <<>>] :
                a \in Optional(BOOLEAN),
                b \in Optional({<<>>, <<"NONE">>, <<"CMD", "true">>})}
      [] focus = "device_read_bps" ->
            {[p |-> [device_read_bps |-> a], c |-> [BlkioDeviceReadBps |-> b],
              d |-> <<>>] :
                a \in Optional(SeqsNoDup(DeviceRates, MaxDevices)),
                b \in Optional(SeqsNoDup(DeviceLimits, MaxDevices))}
      [] focus = "cpu_shares" ->
            {[p |-> [cpu_shares |-> a], c |-> [CpuShares |-> b],
              d |-> [api_lt_122 |-> lt, check_mode |-> chk]] :
                a \in Optional(Shares), b \in Optional(Shares),
                lt \in BOOLEAN, chk \in BOOLEAN}
      [] focus = "restart_retries" ->
            {[p |-> [restart_policy |-> pol, restart_retries |-> a],
              c |-> [RestartPolicy |-> [Name |-> name, MaximumRetryCount |-> b]],
              d |-> <<>>] :
                pol \in Optional({"no", "always"}), a \in Optional({0, 3}),
                name \in Optional({"", "always"}), b \in Optional({0, 3})}
      [] focus = "log_options" ->
            {[p |-> [log_driver |-> drv, log_options |-> a],
              c |-> [LogConfig |-> [Type |-> type, Config |-> b]],
              d |-> <<>>] :
                drv \in Optional({"", "syslog"}), a \in Optional(LogOptions),
                type \in Optional({"json-file", "syslog"}),
                b \in Optional(LogOptions)}
      [] focus = "image" ->
            {[p |-> [image |-> a, pull |-> pull, ignore_image |-> ign,
                     recreate |-> rec],
              c |-> [Image |-> b],
              d |-> [local_image |-> loc, registry_image |-> reg,
                     check_mode |-> chk]] :
                a \in Optional({"ubuntu", "sha256:1"}), pull \in BOOLEAN,
                ign \in BOOLEAN, rec \in BOOLEAN, b \in Images,
                loc \in Optional(Images), reg \in Optional({"sha256:2"}),
                chk \in BOOLEAN}
      [] focus = "networks" ->
            {[p |-> [networks |-> Some(<<Network("net1", None, a, None)>>),
                     purge_networks |-> purge],
              c |-> [Networks |-> [n \in {"bridge", "net1"} |->
                                      Connected(Some("172.17.0.2"), b, None)]],
              d |-> <<>>] :
                a \in Optional(Collections),
                b \in Optional({<<"a", "b", "c">>, <<"b", "a">>, <<"c">>}),
                purge \in BOOLEAN}
            \cup
            {[p |-> [networks |-> a, purge_networks |-> purge],
              c |-> [Networks |-> b],
              d |-> <<>>] :
                a \in {None, Some(<<>>)} \cup
                      {Some(<<Network("net1", ip, None, links)>>) :
                           ip \in Optional({"", "10.0.0.2", "10.0.0.9"}),
                           links \in Optional({<<>>, <<<<"db", "sql">>>>})},
                b \in {[n \in S |-> Connected(Some("10.0.0.2"), None, l)] :
                           S \in SUBSET {"bridge", "net1"},
                           l \in Optional({<<"db:sql", "web:www">>})},
                purge \in BOOLEAN}

Focuses ==
    {"hostname", "dns_servers", "capabilities", "labels", "published_ports",
     "healthcheck", "cpu_shares", "image", "networks", "restart_retries",
     "log_options", "device_read_bps"}

\* The comparisons mappings of a run about `focus`: none, one mode for it, or
\* the wildcard set to ignore with the option set to strict
Modes == {"strict", "ignore", "allow_more_present"}

FocusComparisons(focus) ==
    {<<>>} \cup {<<<<focus, mode>>>> : mode \in Modes}
    \cup {<<<<"*", "ignore">>, <<focus, "strict">>>>}

\* The state before main() runs, given the parameters and the daemon
Start(p, lt_122, chk, d) ==
    /\ params = p
    /\ api_lt_122 = lt_122
    /\ check_mode = chk
    /\ daemon = d
    /\ comparisons = NoComparisons
    /\ pc = "main"
    /\ fail_msg = ""
    /\ container = None
    /\ image = None
    /\ calls = <<>>
    /\ differences = DifferenceTracker
    /\ diff_tracker = DifferenceTracker
    /\ results = [changed |-> FALSE, actions |-> <<>>]
    /\ was_running = FALSE
    /\ was_paused = FALSE
    /\ container_created = FALSE
    /\ count = 0
    /\ earlier = None
    /\ eip = [pc |-> "idle"]

DefaultDaemon ==
    [container |-> None, local_image |-> Some("sha256:1"),
     registry_image |-> Some("sha256:2"), faulty |-> FALSE]

DefaultClient == [api_lt_122 |-> FALSE, check_mode |-> FALSE]

\* Runs about one option, with every value of it in the parameters and in the
\* container, and runs that find no container
Init ==
    \E focus \in Focuses, profile \in Profiles, exists \in BOOLEAN :
      \E case \in FocusCases(focus), comps \in FocusComparisons(focus) :
        LET p == Override(Override(ProfileParams(profile), case.p),
                          [comparisons |-> comps])
            c == Override(ProfileContainer(profile), case.c)
            d == Override(DefaultDaemon, case.d)
            client == Override(DefaultClient, case.d)
        IN  /\ exists \/ (focus = "image" /\ profile = "unset")
            /\ Start(p, client.api_lt_122, client.check_mode,
                     [d EXCEPT !.container = IF exists THEN Some(c) ELSE None])

Spec == Init /\ [][Next]_vars

-----------------------------------------------------------------------------
(* The Docker daemon as the pass sees it: the answer to a call and the       *)
(* container after a call that was answered "ok".  A daemon that is not       *)
(* faulty answers by the state of the container; a faulty one may give any   *)
(* answer the client code distinguishes.                                      *)

\* The calls of docker-py that change the daemon
MutatingCalls ==
    {"pull_image", "create_container", "remove_container", "start", "stop",
     "kill", "update_container", "pause", "unpause",
     "connect_container_to_network", "disconnect_container_from_network"}

\* How a call that raised is written in calls: the call and the exception
Answered(call, answer) == IF answer = "ok" THEN call ELSE call \o ":" \o answer
Failed(call) == Answered(call, "error")

\* 'Unpause the container before stopping or killing' in exc.explanation
UnpauseFirst == "unpause_first"

\* Is the image a create_container call names known to the daemon
image_known(d, name) ==
    d.local_image.some /\ (is_image_name_id(name) => d.local_image.v = name)

\* The answers the daemon d can give to a call
answers(d, call, arg) ==
    IF d.faulty
    THEN CASE call = "stop" -> {"ok", UnpauseFirst, "error"}
           [] call = "remove_container" ->
                 {"ok", "not_found", "in_progress", UnpauseFirst, "error"}
           [] OTHER -> {"ok", "error"}
    ELSE IF ~d.container.some
    THEN CASE call = "create_container" ->
                 IF image_known(d, arg) THEN {"ok"} ELSE {"error"}
           [] call = "remove_container" -> {"not_found"}
           [] OTHER -> {"error"}
    ELSE LET c == d.container.v
         IN  CASE call = "stop" -> IF c.Paused THEN {UnpauseFirst} ELSE {"ok"}
               [] call = "kill" -> IF c.Running THEN {"ok"} ELSE {"error"}
               [] call = "remove_container" ->
                     IF c.Running THEN {"error"} ELSE {"ok"}
               [] call = "unpause" -> IF c.Paused THEN {"ok"} ELSE {"error"}
               [] call = "pause" ->
                     IF c.Running /\ ~c.Paused THEN {"ok"} ELSE {"error"}
               [] call = "connect_container_to_network" ->
                     IF arg.name \in DOMAIN c.Networks THEN {"error"} ELSE {"ok"}
               [] call = "disconnect_container_from_network" ->
                     IF arg \in DOMAIN c.Networks THEN {"ok"} ELSE {"error"}
               [] call = "create_container" -> {"error"}
               [] OTHER -> {"ok"}

\* x if it is specified, else the value the daemon fills in
Default(x, d) == IF x.some THEN x ELSE d

\* TaskParameters.create_parameters: the container create_container makes of
\* the parameters p and the image with ID image_id.  Without
\* networks_cli_compatible it is connected to the default network only.
created_container(p, image_id) ==
    [Image |-> image_id,
     Hostname |-> Default(p.hostname, Some("")),
     Dns |-> p.dns_servers,
     CapAdd |-> p.capabilities,
     Labels |-> Default(p.labels, Some(EmptyDict)),
     PortBindings |-> _get_expected_ports(p),
     PublishAllPorts |-> Default(publish_all_ports(p), Some(FALSE)),
     Healthcheck |-> IF p.disable_healthcheck = Some(TRUE)
                     THEN Some(<<"NONE">>) ELSE Some(<<"CMD", "true">>),
     CpuShares |-> Default(p.cpu_shares, Some(0)),
     RestartPolicy |->
         IF truthy_string(p.restart_policy)
         THEN [Name |-> p.restart_policy,
               MaximumRetryCount |-> Default(p.restart_retries, Some(0))]
         ELSE [Name |-> Some(""), MaximumRetryCount |-> Some(0)],
     LogConfig |->
         IF truthy_string(p.log_driver)
         THEN [Type |-> p.log_driver,
               Config |-> Default(p.log_options, Some(EmptyDict))]
         ELSE [Type |-> Some("json-file"), Config |-> Some(EmptyDict)],
     Networks |-> [n \in {"bridge"} |-> Connected(Some("172.17.0.2"), None, None)],
     Running |-> FALSE, Paused |-> FALSE,
     BlkioDeviceReadBps |-> _process_rate_bps(p.device_read_bps)]

\* update_parameters that holds no limit
update_parameters_none(p) == <<>>

\* TaskParameters.update_parameters: the limits that are specified
update_parameters(p) == SelectSeq(LimitKeys, LAMBDA key : parameter(p, key).some)

\* The container c after update_container with the limits of p
updated_limits(c, p) ==
    IF p.cpu_shares.some THEN [c EXCEPT !.CpuShares = p.cpu_shares] ELSE c

\* The networks nets after connect_container_to_network for network
connected(nets, network) ==
    [n \in DOMAIN nets \cup {network.name} |->
        IF n = network.name
        THEN Connected(Default(network.ipv4_address, Some("10.0.0.2")),
                       network.aliases,
                       IF truthy(network.links)
                       THEN Some(expected_links(network.links.v)) ELSE None)
        ELSE nets[n]]

\* The networks nets after disconnect_container_from_network for name
disconnected(nets, name) == [n \in DOMAIN nets \ {name} |-> nets[n]]

\* The daemon d after a call that was answered "ok"
applied(d, call, arg) ==
    IF call = "create_container"
    THEN [d EXCEPT !.container =
             Some(created_container(arg.p,
                                    IF is_image_name_id(arg.image) THEN arg.image
                                    ELSE d.local_image.v))]
    ELSE IF ~d.container.some THEN d
    ELSE LET c == d.container.v
         IN  CASE call = "remove_container" -> [d EXCEPT !.container = None]
               [] call \in {"stop", "kill"} ->
                     [d EXCEPT !.container =
                         Some([c EXCEPT !.Running = FALSE, !.Paused = FALSE])]
               [] call = "start" ->
                     [d EXCEPT !.container =
                         Some([c EXCEPT !.Running = TRUE, !.Paused = FALSE])]
               [] call = "pause" ->
                     [d EXCEPT !.container = Some([c EXCEPT !.Paused = TRUE])]
               [] call = "unpause" ->
                     [d EXCEPT !.container = Some([c EXCEPT !.Paused = FALSE])]
               [] call = "update_container" ->
                     [d EXCEPT !.container = Some(updated_limits(c, arg))]
               [] call = "connect_container_to_network" ->
                     [d EXCEPT !.container =
                         Some([c EXCEPT !.Networks = connected(c.Networks, arg)])]
               [] call = "disconnect_container_from_network" ->
                     [d EXCEPT !.container =
                         Some([c EXCEPT !.Networks = disconnected(c.Networks, arg)])]

-----------------------------------------------------------------------------
(* ContainerManager: the operations of a pass that call the daemon *)

\* results after an operation has recorded its action and left changed as it
\* was
recorded_unchanged(res, action) ==
    [res EXCEPT !.actions = Append(@, action)]

\* results after an operation has recorded its action
recorded(res, action) ==
    [changed |-> TRUE, actions |-> Append(res.actions, action)]

\* fail() that records the message and returns to its caller
Fails_and_returns(msg) ==
    /\ fail_msg' = msg
    /\ UNCHANGED pc

\* self.fail(msg): the pass ends here
Fails(msg) ==
    /\ pc' = "failed"
    /\ fail_msg' = msg

\* `if count == 3` in the loops of container_remove and container_stop
RetryBudget == 3

\* UnpauseAndRetry that gives up one rejection later
UnpauseAndRetry_late(call) ==
    IF count = RetryBudget + 1
    THEN /\ calls' = Append(calls, Answered(call, UnpauseFirst))
         /\ Fails("Error removing container (tried to unpause three times)")
         /\ UNCHANGED <<daemon, count>>
    ELSE \E unpaused \in answers(daemon, "unpause", None) :
            /\ calls' = calls \o <<Answered(call, UnpauseFirst),
                                   Answered("unpause", unpaused)>>
            /\ count' = count + 1
            /\ IF unpaused = "ok"
               THEN /\ daemon' = applied(daemon, "unpause", None)
                    /\ UNCHANGED <<pc, fail_msg>>
               ELSE /\ Fails("Error unpausing container for removal")
                    /\ UNCHANGED daemon

\* The `except APIError` branch of both loops for the answer "Unpause the
\* container before stopping or killing": fail when count has reached the
\* budget, else count += 1, unpause and `continue`
UnpauseAndRetry(call) ==
    IF count = RetryBudget
    THEN /\ calls' = Append(calls, Answered(call, UnpauseFirst))
         /\ Fails("Error removing container (tried to unpause three times)")
         /\ UNCHANGED <<daemon, count>>
    ELSE \E unpaused \in answers(daemon, "unpause", None) :
            /\ calls' = calls \o <<Answered(call, UnpauseFirst),
                                   Answered("unpause", unpaused)>>
            /\ count' = count + 1
            /\ IF unpaused = "ok"
               THEN /\ daemon' = applied(daemon, "unpause", None)
                    /\ UNCHANGED <<pc, fail_msg>>
               ELSE /\ Fails("Error unpausing container for removal")
                    /\ UNCHANGED daemon

\* container_kill that does not test check_mode
container_kill_unchecked(next) ==
    /\ results' = recorded(results, "killed")
    /\ UNCHANGED count
    /\ \E answer \in answers(daemon, "kill", None) :
          /\ calls' = Append(calls, Answered("kill", answer))
          /\ IF answer = "ok"
             THEN /\ daemon' = applied(daemon, "kill", None)
                  /\ pc' = next
                  /\ UNCHANGED fail_msg
             ELSE /\ Fails("Error killing container")
                  /\ UNCHANGED daemon

\* ContainerManager.container_kill, then the caller goes on at next
container_kill(next) ==
    /\ results' = recorded(results, "killed")
    /\ UNCHANGED count
    /\ IF check_mode
       THEN /\ pc' = next
            /\ UNCHANGED <<daemon, calls, fail_msg>>
       ELSE \E answer \in answers(daemon, "kill", None) :
               /\ calls' = Append(calls, Answered("kill", answer))
               /\ IF answer = "ok"
                  THEN /\ daemon' = applied(daemon, "kill", None)
                       /\ pc' = next
                       /\ UNCHANGED fail_msg
                  ELSE /\ Fails("Error killing container")
                       /\ UNCHANGED daemon

\* container_stop that does nothing and returns
container_stop_skipped(next) ==
    /\ pc' = next
    /\ UNCHANGED <<results, daemon, calls, fail_msg, count>>

\* ContainerManager.container_stop: the lines before the loop when count = 0,
\* and one iteration of the loop; after the last one the caller goes on at next
container_stop(next) ==
    IF params.force_kill THEN container_kill(next)
    ELSE /\ results' = IF count = 0 THEN recorded(results, "stopped") ELSE results
         /\ IF check_mode
            THEN /\ pc' = next
                 /\ UNCHANGED <<daemon, calls, fail_msg, count>>
            ELSE \E answer \in answers(daemon, "stop", None) :
                    CASE answer = "ok" ->
                            /\ calls' = Append(calls, "stop")
                            /\ daemon' = applied(daemon, "stop", None)
                            /\ pc' = next
                            /\ count' = 0
                            /\ UNCHANGED fail_msg
                      [] answer = UnpauseFirst -> UnpauseAndRetry("stop")
                      [] OTHER ->
                            /\ calls' = Append(calls, Failed("stop"))
                            /\ Fails("Error stopping container")
                            /\ UNCHANGED <<daemon, count>>

\* container_remove that does nothing and returns
container_remove_skipped(next) ==
    /\ pc' = next
    /\ UNCHANGED <<results, daemon, calls, fail_msg, count>>

\* ContainerManager.container_remove, in the same way
container_remove(next) ==
    /\ results' = IF count = 0 THEN recorded(results, "removed") ELSE results
    /\ IF check_mode
       THEN /\ pc' = next
            /\ UNCHANGED <<daemon, calls, fail_msg, count>>
       ELSE \E answer \in answers(daemon, "remove_container", None) :
               CASE answer = "ok" ->
                       /\ calls' = Append(calls, "remove_container")
                       /\ daemon' = applied(daemon, "remove_container", None)
                       /\ pc' = next
                       /\ count' = 0
                       /\ UNCHANGED fail_msg
                 [] answer \in {"not_found", "in_progress"} ->
                       /\ calls' = Append(calls, Answered("remove_container", answer))
                       /\ pc' = next
                       /\ count' = 0
                       /\ UNCHANGED <<daemon, fail_msg>>
                 [] answer = UnpauseFirst -> UnpauseAndRetry("remove_container")
                 [] OTHER ->
                       /\ calls' = Append(calls, Failed("remove_container"))
                       /\ Fails("Error removing container")
                       /\ UNCHANGED <<daemon, count>>

\* present(), recreating: `if container.running: self.container_stop(...)`
RecreateStop ==
    /\ pc = "recreate"
    /\ running(container)
    /\ container_stop("recreate_remove")
    /\ UNCHANGED <<params, api_lt_122, check_mode, comparisons, container, image,
                   differences, diff_tracker, was_running, was_paused,
                   container_created, earlier>>
    /\ UNCHANGED eip

\* present(), recreating: self.container_remove(container.Id)
RecreateRemove ==
    /\ \/ pc = "recreate" /\ ~running(container)
       \/ pc = "recreate_remove"
    /\ container_remove("recreate_create")
    /\ UNCHANGED <<params, api_lt_122, check_mode, comparisons, container, image,
                   differences, diff_tracker, was_running, was_paused,
                   container_created, earlier>>
    /\ UNCHANGED eip

\* present(): image_to_use when recreating, self.parameters.image when the
\* container is new
image_to_use ==
    IF pc = "recreate_create" /\ ~truthy_string(params.image)
    THEN container.v.Image ELSE params.image.v

\* ContainerManager.container_create and the lines of present() after it:
\* container = new_container if there is one, container_created = True, and
\* `if container and container.exists`
ContainerCreate ==
    /\ pc \in {"container_create", "recreate_create"}
    /\ results' = recorded(results, "created")
    /\ IF check_mode
       THEN /\ container_created' = TRUE
            /\ pc' = IF container.some THEN "update_limits" ELSE "done"
            /\ UNCHANGED <<daemon, calls, container, fail_msg>>
       ELSE \E answer \in answers(daemon, "create_container", image_to_use) :
               IF answer = "ok"
               THEN /\ daemon' = applied(daemon, "create_container",
                                         [p |-> params, image |-> image_to_use])
                    /\ calls' = calls \o <<"create_container", "inspect_container">>
                    /\ container' = daemon'.container
                    /\ container_created' = TRUE
                    /\ pc' = "update_limits"
                    /\ UNCHANGED fail_msg
               ELSE /\ calls' = Append(calls, Failed("create_container"))
                    /\ Fails("Error creating container")
                    /\ UNCHANGED <<daemon, container, container_created>>
    /\ UNCHANGED <<params, api_lt_122, check_mode, comparisons, image,
                   differences, diff_tracker, was_running, was_paused, count,
                   earlier>>
    /\ UNCHANGED eip

\* ContainerManager.container_update whose caller goes on with the container
\* it had before the update
ContainerUpdate_keeps_container ==
    /\ pc = "container_update"
    /\ IF update_parameters(params) # <<>>
       THEN /\ results' = recorded(results, "updated")
            /\ \E answer \in answers(daemon, "update_container", params) :
                  IF answer = "ok"
                  THEN /\ daemon' = applied(daemon, "update_container", params)
                       /\ calls' = calls \o <<"update_container",
                                              "inspect_container",
                                              "inspect_container">>
                       /\ pc' = "update_networks"
                       /\ UNCHANGED <<fail_msg, container>>
                  ELSE /\ calls' = Append(calls, Failed("update_container"))
                       /\ Fails("Error updating container")
                       /\ UNCHANGED <<daemon, container>>
       ELSE /\ calls' = calls \o <<"inspect_container", "inspect_container">>
            /\ pc' = "update_networks"
            /\ UNCHANGED <<results, daemon, fail_msg, container>>
    /\ UNCHANGED <<params, api_lt_122, check_mode, comparisons, image,
                   differences, diff_tracker, was_running, was_paused,
                   container_created, count, earlier>>
    /\ UNCHANGED eip

\* ContainerManager.container_update, called by update_limits when the limits
\* differ and the pass is not in check mode; update_limits then fetches the
\* container once more
ContainerUpdate ==
    /\ pc = "container_update"
    /\ IF update_parameters(params) # <<>>
       THEN /\ results' = recorded(results, "updated")
            /\ \E answer \in answers(daemon, "update_container", params) :
                  IF answer = "ok"
                  THEN /\ daemon' = applied(daemon, "update_container", params)
                       /\ calls' = calls \o <<"update_container",
                                              "inspect_container",
                                              "inspect_container">>
                       /\ container' = daemon'.container
                       /\ pc' = "update_networks"
                       /\ UNCHANGED fail_msg
                  ELSE /\ calls' = Append(calls, Failed("update_container"))
                       /\ Fails("Error updating container")
                       /\ UNCHANGED <<daemon, container>>
       ELSE /\ calls' = calls \o <<"inspect_container", "inspect_container">>
            /\ container' = daemon.container
            /\ pc' = "update_networks"
            /\ UNCHANGED <<results, daemon, fail_msg>>
    /\ UNCHANGED <<params, api_lt_122, check_mode, comparisons, image,
                   differences, diff_tracker, was_running, was_paused,
                   container_created, count, earlier>>
    /\ UNCHANGED eip

\* The loop of _add_networks as a list of steps: for every difference a
\* disconnect if the network is connected, and a connect
RECURSIVE add_network_steps(_)
add_network_steps(network_diffs) ==
    IF network_diffs = <<>> THEN <<>>
    ELSE LET diff == Head(network_diffs)
         IN  (IF diff.container.some
              THEN <<[action |-> "removed_from_network",
                      call |-> "disconnect_container_from_network",
                      arg |-> diff.parameter.name]>>
              ELSE <<>>)
             \o <<[action |-> "added_to_network",
                   call |-> "connect_container_to_network",
                   arg |-> diff.parameter]>>
             \o add_network_steps(Tail(network_diffs))

\* The loop of _purge_networks as a list of steps
purge_network_steps(extra_networks) ==
    [i \in 1..Len(extra_networks) |->
        [action |-> "removed_from_network",
         call |-> "disconnect_container_from_network",
         arg |-> extra_networks[i]]]

\* The daemon after the first n steps were answered "ok"
RECURSIVE daemon_after(_, _, _)
daemon_after(d, steps, n) ==
    IF n = 0 THEN d
    ELSE applied(daemon_after(d, steps, n - 1), steps[n].call, steps[n].arg)

\* The steps that can be the first to fail, 0 if none does
failing_steps(d, steps) ==
    {k \in 0..Len(steps) :
        /\ \A j \in 1..(IF k = 0 THEN Len(steps) ELSE k - 1) :
              "ok" \in answers(daemon_after(d, steps, j - 1), steps[j].call,
                               steps[j].arg)
        /\ k > 0 => "error" \in answers(daemon_after(d, steps, k - 1),
                                        steps[k].call, steps[k].arg)}

\* The loops of _add_networks and _purge_networks: every step records its
\* action and then, unless in check mode, calls the daemon; step failing
\* raises (0: none does)
NetworkSteps(steps, failing, msg) ==
    IF check_mode
    THEN /\ failing = 0
         /\ results' = [results EXCEPT !.actions =
                           @ \o [i \in 1..Len(steps) |-> steps[i].action]]
         /\ UNCHANGED <<daemon, fail_msg>>
    ELSE LET n == IF failing = 0 THEN Len(steps) ELSE failing
         IN  /\ failing \in failing_steps(daemon, steps)
             /\ results' = [results EXCEPT !.actions =
                               @ \o [i \in 1..n |-> steps[i].action]]
             /\ daemon' = daemon_after(daemon, steps,
                                       IF failing = 0 THEN n ELSE n - 1)
             /\ IF failing = 0 THEN UNCHANGED fail_msg ELSE fail_msg' = msg

\* The calls NetworkSteps makes, and the inspect_container of the return
network_calls(steps, failing) ==
    IF failing # 0
    THEN [i \in 1..failing |->
            IF i = failing THEN Failed(steps[i].call) ELSE steps[i].call]
    ELSE (IF check_mode THEN <<>> ELSE [i \in 1..Len(steps) |-> steps[i].call])
         \o <<"inspect_container">>

\* ContainerManager._add_networks, and the rest of update_networks after it:
\* the extra networks are looked for in the container as it was before
AddNetworks ==
    /\ pc = "add_networks"
    /\ LET steps == add_network_steps(has_network_differences(params, container.v))
           extra_networks == IF extra_networks_checked(params, comparisons)
                             THEN has_extra_networks(params, container.v)
                             ELSE <<>>
       IN  \E failing \in 0..Len(steps) :
              /\ NetworkSteps(steps, failing, "Error connecting container to network")
              /\ calls' = calls \o network_calls(steps, failing)
              /\ IF failing # 0
                 THEN /\ pc' = "failed"
                      /\ UNCHANGED <<container, diff_tracker>>
                 ELSE IF extra_networks # <<>>
                 THEN /\ diff_tracker' = add_extra_networks(diff_tracker,
                                                            extra_networks)
                      /\ pc' = "purge_networks"
                      /\ UNCHANGED container
                 ELSE /\ container' = daemon'.container
                      /\ pc' = "run_state"
                      /\ UNCHANGED diff_tracker
    /\ UNCHANGED <<params, api_lt_122, check_mode, comparisons, image,
                   differences, was_running, was_paused, container_created,
                   count, earlier>>
    /\ UNCHANGED eip

\* ContainerManager._purge_networks, whose result update_networks returns
PurgeNetworks ==
    /\ pc = "purge_networks"
    /\ LET steps == purge_network_steps(has_extra_networks(params, container.v))
       IN  \E failing \in 0..Len(steps) :
              /\ NetworkSteps(steps, failing,
                              "Error disconnecting container from network")
              /\ calls' = calls \o network_calls(steps, failing)
              /\ IF failing # 0
                 THEN /\ pc' = "failed"
                      /\ UNCHANGED container
                 ELSE /\ container' = daemon'.container
                      /\ pc' = "run_state"
    /\ UNCHANGED <<params, api_lt_122, check_mode, comparisons, image,
                   differences, diff_tracker, was_running, was_paused,
                   container_created, count, earlier>>
    /\ UNCHANGED eip

\* present() that goes on to the paused state without a look at the run state
RunState_skipped ==
    /\ pc = "run_state"
    /\ pc' = "set_paused"
    /\ UNCHANGED <<params, api_lt_122, check_mode, daemon, comparisons, fail_msg,
                   container, image, calls, differences, diff_tracker, results,
                   was_running, was_paused, container_created, count, earlier>>
    /\ UNCHANGED eip

\* present(): the choice between starting, restarting and stopping
RunState ==
    /\ pc = "run_state"
    /\ IF params.state = "started" /\ ~running(container)
       THEN /\ diff_tracker' = tracker_add(diff_tracker, "running", Some(TRUE),
                                           Some(was_running))
            /\ pc' = "container_start"
       ELSE IF params.state = "started" /\ params.restart
       THEN /\ diff_tracker' = tracker_add(diff_tracker, "running", Some(TRUE),
                                           Some(was_running))
            /\ pc' = "restart_stop"
       ELSE IF params.state = "stopped" /\ running(container)
       THEN /\ diff_tracker' = tracker_add(diff_tracker, "running", Some(FALSE),
                                           Some(was_running))
            /\ pc' = "stopped_stop"
       ELSE /\ pc' = "set_paused"
            /\ UNCHANGED diff_tracker
    /\ UNCHANGED <<params, api_lt_122, check_mode, daemon, comparisons, fail_msg,
                   container, image, calls, differences, results, was_running,
                   was_paused, container_created, count, earlier>>
    /\ UNCHANGED eip

\* present(), restarting: self.container_stop(container.Id)
RestartStop ==
    /\ pc = "restart_stop"
    /\ container_stop("container_start")
    /\ UNCHANGED <<params, api_lt_122, check_mode, comparisons, container, image,
                   differences, diff_tracker, was_running, was_paused,
                   container_created, earlier>>
    /\ UNCHANGED eip

\* ContainerManager.container_start with detach, the default
ContainerStart ==
    /\ pc = "container_start"
    /\ results' = recorded(results, "started")
    /\ IF check_mode
       THEN /\ calls' = Append(calls, "inspect_container")
            /\ container' = daemon.container
            /\ pc' = "set_paused"
            /\ UNCHANGED <<daemon, fail_msg>>
       ELSE \E answer \in answers(daemon, "start", None) :
               IF answer = "ok"
               THEN /\ daemon' = applied(daemon, "start", None)
                    /\ calls' = calls \o <<"start", "inspect_container">>
                    /\ container' = daemon'.container
                    /\ pc' = "set_paused"
                    /\ UNCHANGED fail_msg
               ELSE /\ calls' = Append(calls, Failed("start"))
                    /\ Fails("Error starting container")
                    /\ UNCHANGED <<daemon, container>>
    /\ UNCHANGED <<params, api_lt_122, check_mode, comparisons, image,
                   differences, diff_tracker, was_running, was_paused,
                   container_created, count, earlier>>
    /\ UNCHANGED eip

\* present(), state stopped: self.container_stop(container.Id)
StoppedStop ==
    /\ pc = "stopped_stop"
    /\ container_stop("stopped_fetch")
    /\ UNCHANGED <<params, api_lt_122, check_mode, comparisons, container, image,
                   differences, diff_tracker, was_running, was_paused,
                   container_created, earlier>>
    /\ UNCHANGED eip

\* present(), state stopped: container = self._get_container(container.Id)
StoppedFetch ==
    /\ pc = "stopped_fetch"
    /\ calls' = Append(calls, "inspect_container")
    /\ container' = daemon.container
    /\ pc' = "set_paused"
    /\ UNCHANGED <<params, api_lt_122, check_mode, daemon, comparisons, fail_msg,
                   image, differences, diff_tracker, results, was_running,
                   was_paused, container_created, count, earlier>>
    /\ UNCHANGED eip

\* present(): `if state == 'started' and container.paused != self.parameters.paused`
SetPaused ==
    /\ pc = "set_paused"
    /\ IF params.state = "started" /\ paused(container) # params.paused
       THEN LET call == IF params.paused THEN "pause" ELSE "unpause"
            IN  /\ diff_tracker' = tracker_add(diff_tracker, "paused",
                                               Some(params.paused), Some(was_paused))
                /\ IF check_mode
                   THEN /\ results' = recorded(results, "set_paused")
                        /\ pc' = "done"
                        /\ UNCHANGED <<daemon, calls, container, fail_msg>>
                   ELSE \E answer \in answers(daemon, call, None) :
                           IF answer = "ok"
                           THEN /\ daemon' = applied(daemon, call, None)
                                /\ calls' = calls \o <<call, "inspect_container">>
                                /\ container' = daemon'.container
                                /\ results' = recorded(results, "set_paused")
                                /\ pc' = "done"
                                /\ UNCHANGED fail_msg
                           ELSE /\ calls' = Append(calls, Failed(call))
                                /\ Fails("Error pausing or unpausing container")
                                /\ UNCHANGED <<daemon, container, results>>
       ELSE /\ pc' = "done"
            /\ UNCHANGED <<daemon, calls, container, fail_msg, results,
                           diff_tracker>>
    /\ UNCHANGED <<params, api_lt_122, check_mode, comparisons, image,
                   differences, was_running, was_paused, container_created,
                   count, earlier>>
    /\ UNCHANGED eip

\* absent() when there is no container
AbsentAlready ==
    /\ pc = "absent"
    /\ ~container.some
    /\ pc' = "done"
    /\ UNCHANGED <<params, api_lt_122, check_mode, daemon, comparisons, fail_msg,
                   container, image, calls, differences, diff_tracker, results,
                   was_running, was_paused, container_created, count, earlier>>
    /\ UNCHANGED eip

\* absent(): `if container.running:` the entry of the tracker and container_stop
AbsentStop ==
    /\ pc = "absent"
    /\ running(container)
    /\ diff_tracker' = IF count = 0
                       THEN tracker_add(diff_tracker, "running", Some(FALSE),
                                        Some(TRUE))
                       ELSE diff_tracker
    /\ container_stop("absent_remove")
    /\ UNCHANGED <<params, api_lt_122, check_mode, comparisons, container, image,
                   differences, was_running, was_paused, container_created,
                   earlier>>
    /\ UNCHANGED eip

\* absent(): the entry of the tracker and container_remove
AbsentRemove ==
    /\ \/ pc = "absent" /\ container.some /\ ~running(container)
       \/ pc = "absent_remove"
    /\ diff_tracker' = IF count = 0
                       THEN tracker_add(diff_tracker, "exists", Some(FALSE),
                                        Some(TRUE))
                       ELSE diff_tracker
    /\ container_remove("done")
    /\ UNCHANGED <<params, api_lt_122, check_mode, comparisons, container, image,
                   differences, was_running, was_paused, container_created,
                   earlier>>
    /\ UNCHANGED eip

\* The module is run once more with the same parameters, not in check mode,
\* against the daemon as the pass has left it
NextPass ==
    /\ pc = "done"
    /\ ~earlier.some
    /\ ~daemon.faulty
    /\ earlier' = Some([check_mode |-> check_mode, changed |-> results.changed,
                        actions |-> results.actions])
    /\ check_mode' = FALSE
    /\ pc' = "main"
    /\ comparisons' = NoComparisons
    /\ fail_msg' = ""
    /\ container' = None
    /\ image' = None
    /\ calls' = <<>>
    /\ differences' = DifferenceTracker
    /\ diff_tracker' = DifferenceTracker
    /\ results' = [changed |-> FALSE, actions |-> <<>>]
    /\ was_running' = FALSE
    /\ was_paused' = FALSE
    /\ container_created' = FALSE
    /\ count' = 0
    /\ UNCHANGED <<params, api_lt_122, daemon>>
    /\ UNCHANGED eip

NextRun ==
    \/ Next
    \/ RecreateStop
    \/ RecreateRemove
    \/ ContainerCreate
    \/ ContainerUpdate
    \/ AddNetworks
    \/ PurgeNetworks
    \/ RunState
    \/ RestartStop
    \/ ContainerStart
    \/ StoppedStop
    \/ StoppedFetch
    \/ SetPaused
    \/ AbsentAlready
    \/ AbsentStop
    \/ AbsentRemove
    \/ NextPass

-----------------------------------------------------------------------------
(* Whole passes: every state, every situation of the container, and the      *)
(* ways it can differ from the parameters                                    *)

\* The parameters of the passes: every option of the model specified
RunParams == Override(DefaultParams, SpecifiedParams)

Net1 == Network("net1", None, Some(<<"a">>), None)

\* The networks of a container connected to bridge and to net1
TwoNetworks(aliases) ==
    [n \in {"bridge", "net1"} |->
        IF n = "bridge" THEN Connected(Some("172.17.0.2"), None, None)
        ELSE Connected(Some("10.0.0.2"), aliases, None)]

\* How the container differs from the parameters: options of the parameters
\* and fields of the container that replace those of RunParams and of
\* MatchingContainer
RunCases ==
    {[p |-> EmptyDict, c |-> EmptyDict],
     [p |-> EmptyDict, c |-> [Hostname |-> Some("db")]],
     [p |-> EmptyDict, c |-> [CpuShares |-> Some(1024)]],
     [p |-> [networks |-> Some(<<Net1>>)], c |-> EmptyDict],
     [p |-> [networks |-> Some(<<Net1>>)], c |-> [Networks |-> TwoNetworks(None)]],
     [p |-> [networks |-> Some(<<Net1>>), purge_networks |-> TRUE],
      c |-> [Networks |-> TwoNetworks(Some(<<"a">>))]],
     [p |-> [networks |-> Some(<<Net1>>), purge_networks |-> TRUE],
      c |-> EmptyDict],
     [p |-> [purge_networks |-> TRUE], c |-> EmptyDict],
     [p |-> [networks |-> Some(<<Net1>>), purge_networks |-> TRUE],
      c |-> [Hostname |-> Some("db"), CpuShares |-> Some(1024)]],
     [p |-> [image |-> Some("sha256:2")], c |-> EmptyDict],
     [p |-> [image |-> None], c |-> [Image |-> "", Hostname |-> Some("db")]],
     [p |-> [image |-> None], c |-> [Hostname |-> Some("db")]]}

\* The options that ask for an operation whatever the container is like
RunFlags ==
    {EmptyDict, [recreate |-> TRUE], [restart |-> TRUE], [force_kill |-> TRUE],
     [paused |-> TRUE], [pull |-> TRUE],
     [force_kill |-> TRUE, restart |-> TRUE]}

States == {"absent", "present", "started", "stopped"}

\* The container the pass finds: none, or one that is stopped, running, paused
Situations ==
    {None} \cup {Some([Running |-> r, Paused |-> p]) :
                    <<r, p>> \in {<<FALSE, FALSE>>, <<TRUE, FALSE>>, <<TRUE, TRUE>>}}

\* The comparisons mappings of the passes: none, and networks ignored
RunComparisons == {<<>>, <<<<"networks", "ignore">>>>}

\* A pass, and after it a second one, against a daemon that applies every
\* call; one pass against a faulty daemon; passes that pull an image the
\* daemon has already (latest)
InitRun ==
    \E case \in RunCases, flags \in RunFlags, state \in States,
       situation \in Situations, lt_122 \in BOOLEAN, chk \in BOOLEAN,
       faulty \in BOOLEAN, comps \in RunComparisons, latest \in BOOLEAN :
        LET p == Override(Override(Override(RunParams, case.p), flags),
                          [state |-> state, comparisons |-> comps])
            c == IF situation.some
                 THEN Some(Override(Override(MatchingContainer, case.c),
                                    situation.v))
                 ELSE None
        IN  /\ faulty => ~chk /\ ~lt_122 /\ flags \in {EmptyDict, [force_kill |-> TRUE]}
            /\ latest => flags = [pull |-> TRUE] /\ ~chk /\ ~lt_122 /\ comps = <<>>
            /\ Start(p, lt_122, chk,
                     [DefaultDaemon EXCEPT
                         !.container = c, !.faulty = faulty,
                         !.registry_image = IF latest THEN DefaultDaemon.local_image
                                            ELSE @])

SpecRun == InitRun /\ [][NextRun]_vars


-----------------------------------------------------------------------------
(* The setup of a run: every comparisons mapping of up to MaxComparisons keys *)

\* Keys of a comparisons mapping: the wildcard, options of type value, dict
\* and set, an alias, networks, image, an option that is no container
\* property, and a name that is no option
ComparisonKeys ==
    {"*", "hostname", "labels", "published_ports", "ports", "networks",
     "state", "no_such_option"}

ComparisonValues == Modes \cup {"no_such_mode"}

\* The mappings with the keys ks, in that order
RECURSIVE MappingsOf(_)
MappingsOf(ks) ==
    IF ks = <<>> THEN {<<>>}
    ELSE {<<<<Head(ks), value>>>> \o rest :
            value \in ComparisonValues, rest \in MappingsOf(Tail(ks))}

ComparisonMappings ==
    UNION {MappingsOf(ks) : ks \in SeqsNoDup(ComparisonKeys, MaxComparisons)}

InitSetup ==
    \E comps \in ComparisonMappings, purge \in BOOLEAN,
       nets \in {None, Some(<<Network("net1", None, None, None)>>)} :
        Start(Override(ProfileParams("differ"),
                       [comparisons |-> comps,
                        purge_networks |-> purge, networks |-> nets]),
              FALSE, FALSE,
              [DefaultDaemon EXCEPT !.container = Some(DifferingContainer)])

NextSetup == ClientInit \/ GetContainer

SpecSetup == InitSetup /\ [][NextSetup]_vars

-----------------------------------------------------------------------------
(* Properties *)

\* present() has compared the existing container with the parameters
AfterPresent ==
    /\ container.some
    /\ pc \in {"recreate", "update_limits", "update_networks",
               "container_update", "add_networks", "purge_networks", "run_state"}

\* update_limits() has compared the resource limits as well
AfterLimits ==
    /\ container.some
    /\ pc \in {"update_networks", "container_update", "add_networks",
               "purge_networks", "run_state"}

\* The keys the two comparisons of this run go through
ComparedKeys == Range(ConfigKeys) \cup Range(DependentKeys) \cup Range(LimitKeys)

\* The parameter of a key is the container's value, an absent collection
\* counting as an empty one
equal_normalized(p, c, table, key) ==
    IF table[parameters_map(key)].type = "value"
    THEN value_eq(parameter(p, key), config_value(c, key))
    ELSE parameter(p, key).v = config_value(c, key).v

\* Every specified parameter is what the container has
StatesEqual(p, c, table) ==
    \A key \in ComparedKeys :
        parameter(p, key).some => equal_normalized(p, c, table, key)

\* C1: when the desired and the observed state are equal after normalization,
\* has_different_configuration returns no difference and
\* has_different_resource_limits none either, whatever the comparison of each
\* option is: nothing is recorded for a compared key, the container is not
\* updated, and it is recreated only for its image or on request.
C1_EqualStatesNoDifference ==
    (AfterPresent /\ StatesEqual(params, container.v, comparisons)) =>
        /\ differences = DifferenceTracker
        /\ tracker_names(diff_tracker) \cap ComparedKeys = {}
        /\ pc # "container_update"
        /\ pc = "recreate" =>
              params.recreate \/ image_different(image, container.v, comparisons)

\* C1 witness: a container that has all the specified options, one of them
\* compared under a mode given in the comparisons mapping, was left as it is
C1_Witness ==
    /\ pc = "run_state"
    /\ StatesEqual(params, container.v, comparisons)
    /\ \A key \in ComparedKeys : parameter(params, key).some
    /\ params.comparisons = <<<<"labels", "strict">>>>
    /\ diff_tracker = DifferenceTracker

\* C2: a key whose comparison is ignore is never recorded as a difference,
\* whatever the container has for it (None included).
C2_IgnoredNeverRecorded ==
    AfterPresent =>
        \A key \in ComparedKeys :
            comparisons[parameters_map(key)].comparison = "ignore" =>
                /\ key \notin tracker_names(differences)
                /\ key \notin tracker_names(diff_tracker)

\* C2 witness: hostname is ignored, specified, absent from the container, and
\* the container was left as it is
C2_Witness ==
    /\ pc = "run_state"
    /\ comparisons["hostname"].comparison = "ignore"
    /\ params.hostname = Some("web")
    /\ ~container.v.Hostname.some
    /\ differences = DifferenceTracker

\* The comparisons mapping is {'*': ignore, option: strict}
WildcardIgnoreExcept(p, option) ==
    /\ Len(p.comparisons) = 2
    /\ \E i, j \in 1..2 :
          /\ p.comparisons[i] = <<"*", "ignore">>
          /\ p.comparisons[j] = <<option, "strict">>

\* The names under which a difference of an option is recorded
names_of(option) ==
    CASE option = "published_ports" -> {"expected_ports", "publish_all_ports"}
      [] option = "healthcheck" -> {"disable_healthcheck"}
      [] option = "networks" -> {"network." \o n : n \in Range(NetworkOrder)}
      [] OTHER -> {option}

\* C3 (as claimed): with '*' set to ignore and one option set to strict, only
\* that option is ever recorded as a mismatch, and the container is recreated
\* or updated only for it (or on request).
C3_OnlyStrictOptionMismatches ==
    \A option \in Focuses :
        (AfterPresent /\ WildcardIgnoreExcept(params, option)) =>
            /\ tracker_names(diff_tracker) \subseteq names_of(option)
            /\ pc \in {"recreate", "container_update", "add_networks",
                       "purge_networks"} =>
                  params.recreate \/ tracker_names(diff_tracker) # {}

\* The option a key of the comparisons mapping names, by name or by alias
named_options(key) ==
    {option \in ContainerOptions : key = option \/ key \in option_aliases(option)}

\* The value the comparisons mapping gives for an option, by name or by alias
explicit_values(p, option) ==
    {p.comparisons[i][2] :
        i \in {j \in 1..Len(p.comparisons) :
                  \/ p.comparisons[j][1] = option
                  \/ p.comparisons[j][1] \in option_aliases(option)}}

\* Client construction has succeeded for a mapping with a wildcard
WildcardResolved == pc \in {"client", "get_image"} /\ has_wildcard(params)

C5_BadWildcardFails ==
    (pc # "main" /\ has_wildcard(params)
        /\ wildcard_value(params) \notin {"strict", "ignore"}) =>
        /\ pc = "failed"
        /\ comparisons = NoComparisons
        /\ calls = <<>>

\* C5 witness: '*': allow_more_present next to a valid entry has failed
C5_Witness ==
    /\ pc = "failed"
    /\ params.comparisons = <<<<"labels", "strict">>, <<"*", "allow_more_present">>>>
    /\ fail_msg = "wildcard mode"

\* A key of the mapping asks allow_more_present for an option of type value
amp_for_value(p) ==
    \E i \in 1..Len(p.comparisons) :
        /\ p.comparisons[i][2] = "allow_more_present"
        /\ \E option \in named_options(p.comparisons[i][1]) :
              option_type(option) = "value"

\* C6: no entry of type value of a comparison table has allow_more_present, the
\* implicit entries included; asking for it fails in the client's construction,
\* before the container is inspected.
C6_NoAllowMorePresentForValue ==
    /\ \A option \in DOMAIN comparisons :
          comparisons[option].type = "value" =>
              comparisons[option].comparison # "allow_more_present"
    /\ (pc # "main" /\ amp_for_value(params)) =>
          pc = "failed" /\ comparisons = NoComparisons /\ calls = <<>>

\* C6 witness: allow_more_present for hostname, after a valid entry, has failed
C6_Witness ==
    /\ pc = "failed"
    /\ params.comparisons =
          <<<<"labels", "allow_more_present">>, <<"hostname", "allow_more_present">>>>
    /\ fail_msg = "value option"
    /\ calls = <<>>

\* A key of the mapping names no container option
unknown_key(p) ==
    \E i \in 1..Len(p.comparisons) :
        p.comparisons[i][1] # "*" /\ named_options(p.comparisons[i][1]) = {}

\* C7: a key that is not '*' and names no container option, by name or alias,
\* makes the client's construction fail, before the container is inspected;
\* a module option that is not a container property (state) is such a key.
C7_UnknownKeyFails ==
    (pc # "main" /\ unknown_key(params)) =>
        pc = "failed" /\ comparisons = NoComparisons /\ calls = <<>>

\* C7 witness: the module option state, after a valid entry, has failed
C7_Witness ==
    /\ pc = "failed"
    /\ params.comparisons = <<<<"hostname", "strict">>, <<"state", "strict">>>>
    /\ fail_msg = "unknown option"
    /\ calls = <<>>

\* update_networks() has compared the networks
AfterNetworks ==
    /\ container.some
    /\ pc \in {"add_networks", "purge_networks", "run_state"}

\* The entries of a tracker recorded under a name
entries_named(tracker, name) ==
    SelectSeq(tracker, LAMBDA entry : entry.name = name)

\* C8: capabilities is compared as a set and dns_servers as a list; under
\* strict, capabilities mismatches iff the desired and the observed elements
\* are not the same, whatever their order, and dns_servers mismatches iff the
\* two sequences are not the same, a reordering included.
C8_StrictSetUnorderedListOrdered ==
    /\ comparisons # NoComparisons =>
          /\ comparisons["capabilities"].type = "set"
          /\ comparisons["dns_servers"].type = "list"
    /\ AfterPresent =>
          /\ (params.capabilities.some
                /\ comparisons["capabilities"].comparison = "strict") =>
                ("capabilities" \in tracker_names(differences)
                    <=> Range(params.capabilities.v) # Range(container.v.CapAdd.v))
          /\ (params.dns_servers.some
                /\ comparisons["dns_servers"].comparison = "strict") =>
                ("dns_servers" \in tracker_names(differences)
                    <=> params.dns_servers.v # container.v.Dns.v)

\* C8 witness: strict capabilities a, b on a container that has b, a: no
\* difference, the container is left as it is
C8_Witness ==
    /\ pc = "run_state"
    /\ params.comparisons = <<<<"capabilities", "strict">>>>
    /\ params.capabilities = Some(<<"a", "b">>)
    /\ container.v.CapAdd = Some(<<"b", "a">>)
    /\ differences = DifferenceTracker

\* C9: under allow_more_present a set mismatches iff a desired element is
\* missing from the container: so for capabilities, and for the aliases of a
\* connected network; without a mismatch the container is recreated only for
\* its image or on request.
C9_AllowMorePresentSet ==
    /\ AfterPresent =>
          /\ (params.capabilities.some
                /\ comparisons["capabilities"].comparison = "allow_more_present") =>
                ("capabilities" \in tracker_names(differences)
                    <=> ~(Range(params.capabilities.v)
                              \subseteq Range(container.v.CapAdd.v)))
          /\ (pc = "recreate" /\ differences = DifferenceTracker) =>
                params.recreate \/ image_different(image, container.v, comparisons)
    /\ (AfterNetworks /\ params.networks.some
          /\ networks_compared(comparisons, container_created)) =>
          \A i \in 1..Len(params.networks.v) :
              LET network == params.networks.v[i]
              IN  (/\ network.name \in DOMAIN container.v.Networks
                   /\ truthy(network.aliases)
                   /\ ~truthy_string(network.ipv4_address)
                   /\ ~truthy(network.links)) =>
                      (("network." \o network.name) \in tracker_names(diff_tracker)
                          <=> ~(Range(network.aliases.v) \subseteq
                                  Range(container.v.Networks[network.name].Aliases.v)))

\* C9 witness: capabilities a, b under the default allow_more_present on a
\* container that has a, b, c: no difference, the container is left as it is
C9_Witness ==
    /\ pc = "run_state"
    /\ params.comparisons = <<>>
    /\ params.capabilities = Some(<<"a", "b">>)
    /\ container.v.CapAdd = Some(<<"a", "b", "c">>)
    /\ diff_tracker = DifferenceTracker

\* Every key of the desired dict is in the observed one with the same value
dict_included(desired, observed) ==
    \A k \in DOMAIN desired : k \in DOMAIN observed /\ observed[k] = desired[k]

\* C10: labels is compared as a dict, under allow_more_present by default; it
\* then mismatches iff a desired key is missing from the container's labels or
\* has another value there, and the mismatch is recorded once, with the desired
\* and the observed dict.
C10_AllowMorePresentDict ==
    /\ (comparisons # NoComparisons /\ params.comparisons = <<>>) =>
          comparisons["labels"] = [type |-> "dict", name |-> "labels",
                                   comparison |-> "allow_more_present"]
    /\ (AfterPresent /\ params.labels.some
          /\ comparisons["labels"].comparison = "allow_more_present") =>
          IF dict_included(params.labels.v, container.v.Labels.v)
          THEN entries_named(differences, "labels") = <<>>
          ELSE /\ entries_named(differences, "labels") =
                     <<[name |-> "labels", parameter |-> params.labels,
                        active |-> container.v.Labels]>>
               /\ entries_named(diff_tracker, "labels") =
                     entries_named(differences, "labels")
               /\ pc = "recreate"

\* C10 witness: labels env=staging on a container labelled env=prod,
\* owner=team-x: the one difference is that of labels, with the two dicts
C10_Witness ==
    /\ pc = "recreate"
    /\ params.labels = Some([env |-> "staging"])
    /\ container.v.Labels = Some([env |-> "prod", owner |-> "team-x"])
    /\ comparisons["labels"].comparison = "allow_more_present"
    /\ differences = <<[name |-> "labels", parameter |-> params.labels,
                        active |-> container.v.Labels]>>

\* A specified parameter that does not match the container's value
mismatches(p, c, table, key) ==
    /\ parameter(p, key).some
    /\ ~_compare(parameter(p, key), config_value(c, key), table[parameters_map(key)])

\* C11 (as claimed): a key is left out of the comparison only when its
\* parameter is not specified; a specified parameter, zero or empty included,
\* is compared, by has_different_configuration and by
\* has_different_resource_limits: it is recorded iff it does not match.
C11_SpecifiedIsCompared ==
    /\ AfterPresent =>
          \A key \in Range(config_keys(params, api_lt_122)) :
              key \in tracker_names(differences)
                  <=> mismatches(params, container.v, comparisons, key)
    /\ (AfterLimits /\ ~api_lt_122) =>
          \A key \in Range(LimitKeys) :
              key \in tracker_names(diff_tracker)
                  <=> mismatches(params, container.v, comparisons, key)

\* C12: restart_retries is compared only when restart_policy is specified,
\* log_driver and log_options only when log_driver is: without the governing
\* option nothing is recorded for them, whatever the container has and even if
\* they are specified, and the container is not recreated for them; with it, a
\* specified value that does not match is recorded.
C12_DependentOnlyWithGoverning ==
    AfterPresent =>
        /\ ~truthy_string(params.restart_policy) =>
              "restart_retries" \notin
                  tracker_names(differences) \cup tracker_names(diff_tracker)
        /\ ~truthy_string(params.log_driver) =>
              {"log_driver", "log_options"} \cap
                  (tracker_names(differences) \cup tracker_names(diff_tracker)) = {}
        /\ (truthy_string(params.restart_policy)
              /\ mismatches(params, container.v, comparisons, "restart_retries")) =>
              "restart_retries" \in tracker_names(differences)
        /\ (truthy_string(params.log_driver)
              /\ mismatches(params, container.v, comparisons, "log_options")) =>
              "log_options" \in tracker_names(differences)
        /\ (pc = "recreate" /\ tracker_names(differences) = {}) =>
              params.recreate \/ image_different(image, container.v, comparisons)

\* C12 witness: restart_retries 3 without restart_policy, compared strictly, on
\* a container with MaximumRetryCount 0: the container is left as it is
C12_Witness ==
    /\ pc = "run_state"
    /\ ~params.restart_policy.some
    /\ params.restart_retries = Some(3)
    /\ container.v.RestartPolicy.MaximumRetryCount = Some(0)
    /\ comparisons["restart_retries"].comparison = "strict"
    /\ diff_tracker = DifferenceTracker

-----------------------------------------------------------------------------
(* Properties of whole passes *)

\* The entries of calls for the calls of one kind
StopReturned == {"stop", "kill"}
RemoveReturned ==
    {Answered("remove_container", answer) : answer \in {"ok", "not_found", "in_progress"}}
RemoveAttempts ==
    RemoveReturned \cup {Answered("remove_container", answer) :
                            answer \in {UnpauseFirst, "error"}}
StopAttempts ==
    StopReturned \cup {Answered("stop", UnpauseFirst), Failed("stop"), Failed("kill")}
CreateAttempts == {"create_container", Failed("create_container")}

\* The positions of calls with an entry of the set
positions(entries) == {i \in 1..Len(calls) : calls[i] \in entries}

\* The pass is one of present() that found a container
FoundContainer ==
    /\ params.state # "absent"
    /\ pc \notin {"main", "client", "get_image", "present"}
    /\ "exists" \notin tracker_names(diff_tracker)
    /\ fail_msg # "Cannot create container when image is not specified!"

\* The pass is past the lines of present() that create or recreate
PastCreation ==
    pc \in {"update_limits", "container_update", "update_networks", "add_networks",
            "purge_networks", "run_state", "container_start", "restart_stop",
            "stopped_stop", "stopped_fetch", "set_paused", "done"}

\* C13: a pass of present() that is not in check mode and finds a container
\* with a configuration mismatch, or with recreate set, recreates it, and in
\* this order: create is called only after remove has returned, remove only
\* after the stop of a container that was running has returned, a container
\* that was not running is not stopped before it is removed, and when no image
\* can be determined the pass fails without a stop, remove or create call.
C13_StopRemoveCreate ==
    (~check_mode /\ FoundContainer) =>
        /\ \A k \in positions(CreateAttempts) :
              \E j \in positions(RemoveReturned) :
                 /\ j < k
                 /\ positions(RemoveAttempts) \subseteq 1..j
        /\ \A j \in positions(RemoveAttempts) :
              IF was_running
              THEN \E i \in positions(StopReturned) : i < j
              ELSE positions(StopAttempts) \cap 1..j = {}
        /\ (PastCreation /\ (~tracker_empty(differences) \/ params.recreate)) =>
              /\ container_created
              /\ positions({"create_container"}) # {}
        /\ fail_msg = "Cannot recreate container" =>
              positions(StopAttempts \cup RemoveAttempts \cup CreateAttempts) = {}

C13_Witness ==
    /\ pc = "done"
    /\ ~check_mode
    /\ ~tracker_empty(differences)
    /\ \E i, j, k \in 1..Len(calls) :
          /\ i < j /\ j < k
          /\ calls[i] = "stop"
          /\ calls[j] = "remove_container"
          /\ calls[k] = "create_container"

UpdateAttempts == {"update_container", Failed("update_container")}

\* The container the pass found differs from the parameters in a resource
\* limit and in nothing else: it was not recreated, and it is not to be
\* restarted nor stopped
LimitsOnly ==
    /\ FoundContainer
    /\ ~container_created
    /\ tracker_names(diff_tracker) \cap Range(LimitKeys) # {}
    /\ ~params.restart
    /\ ~(params.state = "stopped" /\ was_running)

MutatingEntries ==
    {Answered(call, answer) :
        call \in MutatingCalls,
        answer \in {"ok", "error", UnpauseFirst, "not_found", "in_progress"}}

\* This is the second pass, after a first one that was not in check mode and
\* completed without failure against a daemon that applies every call
SecondPass == earlier.some /\ ~earlier.v.check_mode

\* The second pass changes nothing
ChangesNothing ==
    /\ ~results.changed
    /\ positions(MutatingEntries) = {}
    /\ pc # "failed"

Tries(call) ==
    positions({Answered(call, answer) :
                  answer \in {"ok", "error", UnpauseFirst, "not_found", "in_progress"}})
Rejections(call) == positions({Answered(call, UnpauseFirst)})

\* The retry loops of container_stop and container_remove, with at most
\* attempts attempts: a further attempt follows only a rejected one and the
\* unpause call after it, the rejection of the last attempt ends the pass, and
\* so does an unpause call that fails
RetryLoop(attempts) ==
    /\ count <= RetryBudget
    /\ \A call \in {"stop", "remove_container"} :
          /\ Cardinality(Tries(call)) <= attempts
          /\ \A i \in Tries(call) :
                (\E j \in Tries(call) : j > i) =>
                    /\ calls[i] = Answered(call, UnpauseFirst)
                    /\ calls[i + 1] = "unpause"
                    /\ i + 2 \in Tries(call)
          /\ \A i \in Rejections(call) :
                IF Cardinality(Rejections(call) \cap 1..i) = attempts
                THEN i = Len(calls) /\ pc = "failed"
                ELSE /\ i < Len(calls)
                     /\ calls[i + 1] \in {"unpause", Failed("unpause")}
                     /\ calls[i + 1] = Failed("unpause") =>
                           i + 1 = Len(calls) /\ pc = "failed"

\* C16 as stated: when the daemon rejects the stop or remove calls with
\* 'Unpause the container before stopping or killing', the call is attempted
\* at most 3 times, with an unpause call between consecutive attempts; after
\* the last rejection, and after an unpause call that fails, the pass fails.
C16_AtMostThreeAttempts == RetryLoop(3)

\* C16: the same with at most 4 attempts: the budget of 3 counts the unpause
\* calls, and the stop or remove call is attempted once more after each.
C16_AtMostThreeUnpauses == RetryLoop(RetryBudget + 1)

C16_Witness ==
    /\ pc = "failed"
    /\ fail_msg = "Error removing container (tried to unpause three times)"
    /\ Cardinality(Rejections("stop")) = 4
    /\ Cardinality(positions({"unpause"})) = 3
    /\ calls[Len(calls)] = Answered("stop", UnpauseFirst)

\* The calls whose failure ends the pass
FatalCalls ==
    {"create_container", "update_container", "remove_container", "stop", "kill",
     "start", "pause", "unpause", "connect_container_to_network",
     "disconnect_container_from_network"}

\* C17: a create, update, remove, stop, kill, start, pause, unpause, connect
\* or disconnect call that has failed is the last call of the pass, which has
\* failed; and a pass that has failed takes no further step: it issues no
\* call and the daemon stays as the calls before the failure have left it.
C17_FailedCallEndsPass ==
    /\ [](\A i \in positions({Failed(call) : call \in FatalCalls}) :
             i = Len(calls) /\ pc = "failed")
    /\ [][pc # "failed"]_vars

C17_Witness ==
    /\ pc = "failed"
    /\ calls[Len(calls)] = Failed("create_container")
    /\ positions({"stop"}) # {}
    /\ positions({"remove_container"}) # {}
    /\ ~daemon.container.some

\* What the module hands to its caller: exit_json(**results) after
\* ContainerManager.__init__ has removed the actions of a pass that is not in
\* check mode (debug is not set), or fail_json(msg) from fail(msg)
module_result ==
    IF pc = "failed"
    THEN [failed |-> TRUE, msg |-> fail_msg, changed |-> None, actions |-> None]
    ELSE [failed |-> FALSE, msg |-> "", changed |-> Some(results.changed),
          actions |-> IF check_mode THEN Some(results.actions) ELSE None]

\* C18: when a create, update or remove call fails, the failure result holds
\* the actions recorded in results['actions'] before the failure.
C18_FailureReportsActions ==
    (/\ pc = "failed"
     /\ calls # <<>>
     /\ calls[Len(calls)] \in {Failed("create_container"),
                               Failed("update_container"),
                               Failed("remove_container")}) =>
        module_result.actions = Some(results.actions)

\* C19: a pass in check mode issues no pull_image, create_container,
\* remove_container, start, stop, kill, update_container, pause, unpause,
\* connect or disconnect call, whatever the parameters and the container are,
\* and leaves the daemon as it is; what it would do is in results['actions'].
C19_CheckModeCallsNothing ==
    /\ [](check_mode => positions(MutatingEntries) = {})
    /\ [][check_mode => daemon' = daemon]_vars

C19_Witness ==
    /\ check_mode
    /\ pc = "done"
    /\ results.actions = <<"stopped", "removed", "created">>
    /\ positions(MutatingEntries) = {}
    /\ running(daemon.container)

\* C20: a pass in check mode reports the same changed value and the same
\* sequence of action kinds as the pass that is not in check mode, has the
\* same parameters, finds the same image and the same container, and
\* completes without failure; a difference in a resource limit alone is
\* reported as changed with an 'updated' action in check mode too.
C20_CheckModeReportsTheSame ==
    (earlier.some /\ earlier.v.check_mode /\ pc = "done") =>
        /\ earlier.v.changed = results.changed
        /\ earlier.v.actions = results.actions

\* The entries of calls for the network calls, however answered
NetworkEntries ==
    {Answered(call, answer) :
        call \in {"connect_container_to_network",
                  "disconnect_container_from_network"},
        answer \in {"ok", "error"}}

\* C21: with networks set to ignore in comparisons, a pass that finds a
\* container and does not create or recreate it issues no connect and no
\* disconnect call, whatever networks and purge_networks are.
C21_IgnoredNetworksUntouched ==
    (/\ FoundContainer
     /\ comparisons["networks"].comparison = "ignore"
     /\ ~container_created) =>
        positions(NetworkEntries) = {}

\* The names of the networks the parameters list
requested_networks(p) ==
    IF truthy(p.networks)
    THEN {p.networks.v[i].name : i \in 1..Len(p.networks.v)} ELSE {}

C23_AbsentStopsThenRemoves ==
    params.state = "absent" =>
        /\ positions(CreateAttempts \cup UpdateAttempts
                     \cup {"start", Failed("start"), "find_image",
                           "find_image_by_id", "pull_image"}) = {}
        /\ \A j \in positions(RemoveAttempts) :
              IF running(container)
              THEN \E i \in positions(StopReturned) : i < j
              ELSE positions(StopAttempts) = {}
        /\ positions(StopAttempts) # {} => running(container)
        /\ pc = "done" =>
              IF container.some
              THEN /\ results.changed
                   /\ "removed" \in Range(results.actions)
                   /\ ~check_mode => positions(RemoveReturned) # {}
              ELSE /\ ~results.changed
                   /\ positions(MutatingEntries) = {}

C23_Witness ==
    /\ params.state = "absent"
    /\ pc = "done"
    /\ ~check_mode
    /\ calls = <<"inspect_container", "stop", "remove_container">>
    /\ results.changed
    /\ ~daemon.container.some

StartAttempts == {"start", Failed("start")}

\* The stop and kill calls that are not those of a recreation: the ones after
\* the container was created, all of them when it was not
run_state_stops ==
    {i \in positions(StopAttempts) : \A k \in positions(CreateAttempts) : i > k}

\* The container is not running when its configuration has been reconciled:
\* it is new, or it was found not running
NotRunningWhenReconciled == container_created \/ ~was_running

\* A pass of present() that is not in check mode has completed
PresentCompleted == pc = "done" /\ ~check_mode /\ params.state # "absent"

\* What C24 says of the states stopped and present, and of the end of a pass
\* with state started
RunStateOther ==
    /\ params.state \in {"stopped", "present"} => positions(StartAttempts) = {}
    /\ Cardinality(positions(StartAttempts)) <= 1
    /\ PresentCompleted =>
          CASE params.state = "started" -> running(daemon.container)
            [] params.state = "stopped" ->
                  /\ run_state_stops # {} <=> ~NotRunningWhenReconciled
                  /\ ~running(daemon.container)
            [] OTHER -> run_state_stops = {}

\* C24 as stated: with state started a start call is issued iff the container
\* is not running once the configuration is reconciled, and the container is
\* running when the pass completes; with state stopped a stop call is issued
\* iff the container is running, and never a start; with state present
\* neither is issued outside a recreation.
C24_StartIffNotRunning ==
    /\ RunStateOther
    /\ (PresentCompleted /\ params.state = "started") =>
          /\ positions(StartAttempts) # {} <=> NotRunningWhenReconciled
          /\ run_state_stops = {}

\* C24: the same, but with restart set and state started a running container
\* is stopped and started again.
C24_StartIffNotRunningOrRestart ==
    /\ RunStateOther
    /\ (PresentCompleted /\ params.state = "started") =>
          /\ positions(StartAttempts) # {}
                <=> (NotRunningWhenReconciled \/ params.restart)
          /\ run_state_stops # {}
                <=> (params.restart /\ ~NotRunningWhenReconciled)

C24_Witness ==
    /\ PresentCompleted
    /\ params.state = "started"
    /\ ~params.restart
    /\ ~was_running /\ ~container_created
    /\ positions({"start"}) # {}
    /\ running(daemon.container)

-----------------------------------------------------------------------------
(* ec2_eip: main() is one step from the module parameters and the addresses  *)
(* EC2 knows to the result or the exception.  A function of the module is   *)
(* an operator that yields [raised, calls, changed, response, address]: did  *)
(* it raise, the mutating EC2 calls it made, and what it returned.           *)

\* The mutating calls of the EC2 client
EipMutatingCalls ==
    {"allocate_address", "associate_address", "disassociate_address",
     "release_address"}

\* A function of the module has raised, after the calls it made
Raised(made) ==
    [raised |-> TRUE, calls |-> made, changed |-> FALSE, response |-> None,
     address |-> None]

\* A function of the module has returned response, changed
Returned(made, changed, response, address) ==
    [raised |-> FALSE, calls |-> made, changed |-> changed,
     response |-> response, address |-> address]

\* The address ec2.allocate_address makes
NewAddress == [PublicIp |-> "3.3.3.3", InstanceId |-> None]

\* allocate_address(ec2, domain, reuse_existing_ip_allowed): it takes no
\* check_mode.  With reuse it goes through the answer of describe_addresses,
\* which raises, yields a free address (reuse = "free") or yields none
allocate_address(ec2, reuse_existing_ip_allowed, reuse) ==
    IF reuse_existing_ip_allowed /\ reuse = "raised"
    THEN Raised(<<>>)
    ELSE IF reuse_existing_ip_allowed /\ reuse = "free"
    THEN Returned(<<>>, FALSE, Some("address"), ec2.free)
    ELSE Returned(<<"allocate_address">>, TRUE, Some("address"), Some(NewAddress))

\* release_address(ec2, address, chk): address.get raises for None
release_address(address, chk) ==
    IF chk THEN Returned(<<>>, FALSE, None, address)
    ELSE IF ~address.some THEN Raised(<<>>)
    ELSE Returned(<<"release_address">>, TRUE, Some("response"), None)

\* disassociate_ip_and_device: in check mode `response` is not assigned when
\* `return response, changed` reads it
disassociate_ip_and_device(address, chk) ==
    IF chk THEN Raised(<<>>)
    ELSE Returned(<<"disassociate_address">>, TRUE, Some("response"),
                  Some([address.v EXCEPT !.InstanceId = None]))

\* associate_ip_and_device as ensure_present calls it, with
\* `response, changed = ...`: `return changed` for an address that is
\* associated cannot be unpacked, and in check mode `response` is not assigned
associate_ip_and_device(address, device_id, chk, associated) ==
    IF associated THEN Raised(<<>>)
    ELSE IF chk THEN Raised(<<>>)
    ELSE Returned(<<"associate_address">>, TRUE, Some("response"),
                  Some([address.v EXCEPT !.InstanceId = device_id]))

\* main(): an_instance, from the prefix of device_id
is_aninstance(device_id) == device_id = Some("i-1")

\* ensure_present as main calls it, with `response, changed = ...`: in check
\* mode without an address `return changed` cannot be unpacked
ensure_present(ec2, in_vpc, address, device_id, reuse_existing_ip_allowed, chk, reuse, associated) ==
    IF ~address.some /\ chk THEN Raised(<<>>)
    ELSE LET allocated == IF address.some
                          THEN Returned(<<>>, FALSE, None, address)
                          ELSE allocate_address(ec2, reuse_existing_ip_allowed, reuse)
         IN  IF allocated.raised THEN allocated
             ELSE IF ~ec2.device_exists
             THEN Raised(allocated.calls)
             ELSE IF /\ is_aninstance(device_id) /\ reuse_existing_ip_allowed
                     /\ ec2.device_in_vpc /\ ~in_vpc
             THEN Raised(allocated.calls)
             ELSE LET done == associate_ip_and_device(allocated.address, device_id,
                                                      chk, associated)
                  IN  [done EXCEPT !.calls = allocated.calls \o @]

\* ensure_absent: without an address `response` is not assigned when
\* `return response, changed` reads it
ensure_absent(address, chk) ==
    IF ~address.some THEN Raised(<<>>)
    ELSE disassociate_ip_and_device(address, chk)

\* main(), from find_address to the result: the branches on state and
\* device_id
eip_outcome(p, ec2, chk, reuse, associated) ==
    IF p.state = "present"
    THEN IF p.device_id.some
         THEN ensure_present(ec2, p.in_vpc, ec2.address, p.device_id,
                             p.reuse_existing_ip_allowed, chk, reuse,
                             associated)
         ELSE allocate_address(ec2, p.reuse_existing_ip_allowed, reuse)
    ELSE IF p.device_id.some
    THEN LET done == ensure_absent(ec2.address, chk)
         IN  IF ~done.raised /\ p.release_on_disassociation /\ done.changed
             THEN LET released == release_address(ec2.address, chk)
                  IN  [released EXCEPT !.calls = done.calls \o @]
             ELSE done
    ELSE release_address(ec2.address, chk)

\* The choices main() has no hand in: what describe_addresses yields to
\* allocate_address, whether the address is found associated with the device,
\* and whether camel_dict_to_snake_dict takes a response that is None
ReuseAnswers(ec2) == {"raised", "none"} \cup (IF ec2.free.some THEN {"free"} ELSE {})
AssociatedAnswers(p, ec2) ==
    {FALSE} \cup (IF ec2.address.some /\ ec2.address.v.InstanceId = p.device_id
                  THEN {TRUE} ELSE {})

\* main() of ec2_eip
ec2_eip_main ==
    /\ eip.pc = "main"
    /\ \E reuse \in ReuseAnswers(eip.ec2),
          associated \in AssociatedAnswers(eip.params, eip.ec2),
          converts \in BOOLEAN :
          LET p == eip.params
              done == eip_outcome(p, eip.ec2, eip.check_mode, reuse, associated)
          IN  IF p.device_id = Some("eni-1") /\ ~p.in_vpc
              THEN eip' = [eip EXCEPT !.pc = "failed"]
              ELSE IF done.raised \/ (~done.response.some /\ ~converts)
              THEN eip' = [eip EXCEPT !.pc = "raised", !.calls = done.calls]
              ELSE eip' = [eip EXCEPT !.pc = "exit", !.calls = done.calls,
                                      !.changed = Some(done.changed)]
    /\ UNCHANGED <<params, api_lt_122, check_mode, daemon, comparisons, pc,
                   fail_msg, container, image, calls, differences, diff_tracker,
                   results, was_running, was_paused, container_created, count,
                   earlier>>

\* The addresses of the runs
Address(instance) == [PublicIp |-> "1.1.1.1", InstanceId |-> instance]

\* find_address can return the address a: the one with the public_ip, else
\* one associated with the device, and none without both
find_address(public_ip, device_id, a) ==
    IF public_ip.some THEN a.PublicIp = public_ip.v
    ELSE device_id.some /\ a.InstanceId = device_id

\* The runs of ec2_eip: every combination of the parameters, with no address
\* found, a free one, one associated with the device and one with another
InitEip ==
    \E state \in {"present", "absent"}, device_id \in Optional({"i-1", "eni-1"}),
       public_ip \in Optional({"1.1.1.1"}), reuse_allowed \in BOOLEAN,
       release \in BOOLEAN, chk \in BOOLEAN, in_vpc \in BOOLEAN,
       device_in_vpc \in BOOLEAN,
       address \in Optional({Address(None), Address(Some("i-1")),
                             Address(Some("i-2")), Address(Some("eni-1"))}),
       free \in Optional({Address(None)}), device_exists \in BOOLEAN :
        /\ IF address.some THEN find_address(public_ip, device_id, address.v)
                           ELSE TRUE
        /\ eip = [pc |-> "main",
                  params |-> [state |-> state, device_id |-> device_id,
                              public_ip |-> public_ip,
                              reuse_existing_ip_allowed |-> reuse_allowed,
                              release_on_disassociation |-> release,
                              in_vpc |-> in_vpc],
                  check_mode |-> chk,
                  ec2 |-> [address |-> address, free |-> free,
                           device_exists |-> device_exists,
                           device_in_vpc |-> device_in_vpc],
                  calls |-> <<>>, changed |-> None]
        /\ params = DefaultParams
        /\ api_lt_122 = FALSE
        /\ check_mode = chk
        /\ daemon = DefaultDaemon
        /\ comparisons = NoComparisons
        /\ pc = "idle"
        /\ fail_msg = ""
        /\ container = None
        /\ image = None
        /\ calls = <<>>
        /\ differences = DifferenceTracker
        /\ diff_tracker = DifferenceTracker
        /\ results = [changed |-> FALSE, actions |-> <<>>]
        /\ was_running = FALSE
        /\ was_paused = FALSE
        /\ container_created = FALSE
        /\ count = 0
        /\ earlier = None

NextEip == ec2_eip_main

SpecEip == InitEip /\ [][NextEip]_vars

\* C26: in check mode ec2_eip makes no allocate_address, associate_address,
\* disassociate_address or release_address call, whatever state, device_id,
\* public_ip, reuse_existing_ip_allowed and release_on_disassociation are, and
\* it ends with a result that has a changed flag, not with an exception.
C26_EipCheckModeCallsNothing ==
    (eip.check_mode /\ eip.pc # "main") =>
        /\ Range(eip.calls) \cap EipMutatingCalls = {}
        /\ eip.pc \in {"exit", "failed"}
        /\ eip.pc = "exit" => eip.changed.some

\* The Container object of the pass is the daemon's container as it is now:
\* it was fetched after the last call that changed it
FetchedAfterLastMutation == container = daemon.container

\* C27 (as stated): has_different_configuration, has_different_resource_limits,
\* has_network_differences and has_extra_networks are evaluated on, and the
\* facts at the end are, a container fetched after the last mutating call of
\* the pass.
C27_ComparisonsUseFreshContainer ==
    /\ pc \in {"present", "update_limits", "update_networks", "purge_networks"}
          => FetchedAfterLastMutation
    /\ (pc = "done" /\ params.state # "absent") => FetchedAfterLastMutation

\* C27 (amended): has_different_configuration, has_different_resource_limits
\* and has_network_differences are evaluated on, and the facts at the end are,
\* a container fetched after the last mutating call of the pass;
\* has_extra_networks is evaluated on the container update_networks was given,
\* fetched before the connect and disconnect calls of _add_networks, and finds
\* the extra networks a fetch after them would show.
C27_FreshExceptExtraNetworks ==
    /\ pc \in {"present", "update_limits", "update_networks"}
          => FetchedAfterLastMutation
    /\ (pc = "done" /\ params.state # "absent") => FetchedAfterLastMutation
    /\ pc = "purge_networks" =>
          /\ container.some /\ daemon.container.some
          /\ has_extra_networks(params, container.v)
                = has_extra_networks(params, daemon.container.v)

C27_Witness ==
    /\ pc = "purge_networks"
    /\ ~check_mode
    /\ ~FetchedAfterLastMutation
    /\ "connect_container_to_network" \in Range(calls)
    /\ has_extra_networks(params, container.v) # <<>>

\* The keys of has_different_configuration of shape set and set(dict), with
\* the option and the field of the container they compare
UnorderedKeys ==
    {[key |-> "capabilities", option |-> "capabilities", field |-> "CapAdd"],
     [key |-> "device_read_bps", option |-> "device_read_bps",
      field |-> "BlkioDeviceReadBps"]}

\* The orderings of a collection that may be None
Reorderings(x) == IF x.some THEN {Some(t) : t \in Permutations_of(x.v)} ELSE {x}

\* C28: the difference recorded for a mismatching property of shape set or
\* set(dict) does not depend on the order of the elements: a reconciliation
\* whose desired value and whose observed value are permutations of this
\* one's records the same difference for the property, with the same (sorted)
\* parameter and active values.
C28_SortedDifferenceIgnoresOrder ==
    (pc = "recreate" /\ container.some) =>
        \A k \in UnorderedKeys :
            \A desired \in Reorderings(params[k.option]),
               observed \in Reorderings(container.v[k.field]) :
                config_difference(DifferenceTracker,
                                  [params EXCEPT ![k.option] = desired],
                                  [container.v EXCEPT ![k.field] = observed],
                                  comparisons, k.key)
                    = SelectSeq(differences, LAMBDA d : d.name = k.key)

C28_Witness ==
    /\ pc = "recreate"
    /\ container.some
    /\ \E i \in 1..Len(differences) :
          /\ differences[i].name = "device_read_bps"
          /\ differences[i].parameter # parameter(params, "device_read_bps")
          /\ differences[i].active # container.v.BlkioDeviceReadBps
          /\ Len(differences[i].parameter.v) = 2
          /\ Len(differences[i].active.v) = 2

NetworkActionsPending ==
    \/ /\ pc = "add_networks"
       /\ add_network_steps(has_network_differences(params, container.v)) # <<>>
    \/ /\ pc = "purge_networks"
       /\ purge_network_steps(has_extra_networks(params, container.v)) # <<>>

\* results['changed'] does not go back to false within a pass
ChangedStays == (results.changed /\ pc # "done") => results'.changed

=============================================================================
